---- MODULE Spec2Model ----
(***************************************************************************)
(* The order book, the player session, the worker thread of one market,    *)
(* the pool of market workers, the price engine and the worker manager of  *)
(* the stock game.                                                         *)
(*                                                                         *)
(* OrderBook (src/game/order-book.ts) is two binary heaps of Order objects *)
(* and an id -> Order map. An Order object is a record; its field ref is   *)
(* the identity of the JavaScript object, so that the map and the heaps    *)
(* can hold the same object or two different objects that carry one id.    *)
(*                                                                         *)
(* PlayerSession (src/game/player-session.ts) is a balance and an          *)
(* inventory map. The worker thread (src/game/market-worker-thread.ts)     *)
(* has its own order book on sorted arrays, its own sessions and a price   *)
(* engine, and handles one message at a time. MarketWorker and WorkerPool  *)
(* (market-worker.ts) run on the main thread: their async methods are      *)
(* split at each await, and threads, responses and timers interleave.      *)
(* MarketEngine (src/game/market-engine.ts) is a price that updatePrice    *)
(* moves; WorkerManager (src/game/worker-manager.ts) is a bounded queue of *)
(* tasks, the runners that take them and the subscribers of the updates.   *)
(*                                                                         *)
(* Each component has its own specification over the one state; a step of  *)
(* one component leaves the others unchanged.                              *)
(***************************************************************************)
EXTENDS Integers, Sequences, FiniteSets, TLC

\* ---- bounds of the model ------------------------------------------------
MaxArrivals == 3    \* addOrder calls in one run of Spec
MaxDepth == 4       \* addOrder calls in one run of SpecDeep
MaxOrders == 2      \* addOrder calls in one run of SpecAnyOrder
MaxId == 2          \* order ids 1..MaxId handed to the book in SpecAnyOrder
MaxPrice == 2       \* prices 1..MaxPrice
MaxQty == 2         \* quantities up to MaxQty
MaxTime == 2        \* caller-supplied timestamps 1..MaxTime in SpecAnyOrder
MaxDelta == 2       \* adjustments -MaxDelta..MaxDelta of a PlayerSession
MaxBalance == 4     \* balance of the PlayerSession stays <= MaxBalance
MaxHolding == 2     \* quantity of an item in the PlayerSession stays <= MaxHolding
MaxSubmits == 2     \* submit-order messages in one run of SpecWorker
MaxWorkerPrice == 1 \* small prices 1..MaxWorkerPrice of orders and engine in SpecWorker
MaxWorkerQty == 1   \* small quantities 1..MaxWorkerQty of orders in SpecWorker
MaxCalls == 3       \* calls of pool methods in one run of SpecPool
MaxPoolOrderId == 1 \* order ids 1..MaxPoolOrderId handed to the pool
MaxCrashes == 2     \* failures of threads in one run of SpecCrash
MaxRetries == 2     \* config.maxRetries of the WorkerManager
MaxBackoffCrashes == 8 \* failures of threads in one run of SpecBackoff
MaxEnginePrice == 4 \* largest finite number of the engine, in hundredths
MaxExponent == 2    \* Math.exp is finite and not 0 on -MaxExponent..MaxExponent
MaxDrift == 2       \* drifts -MaxDrift..MaxDrift of the engine
MaxVolume == 2      \* volumes 1..MaxVolume of recorded orders
MaxRecorded == 2    \* recorded orders between two updates of the price

\* WorkerManager: config.queueCapacity and config.workerPoolSize, the calls of
\* its methods in one run, the runners it spawns and the broadcasts of its tick
QueueCapacity == 1
WorkerPoolSize == 1
MaxManagerCalls == 3
MaxRunners == 2
MaxBroadcasts == 1

\* ---- types (types.ts) ----------------------------------------------------
OrderSide == {"buy", "sell"}
OrderType == {"limit", "market"}
OrderStatus == {"pending", "filled", "cancelled", "partial"}

\* price?: number -- <<>> is undefined, <<p>> is the number p
Price == {<<>>} \cup {<<p>> : p \in 1..MaxPrice}

\* interface Order, as far as the book reads it (playerId and itemId are
\* carried along and never read by the queues or the matching rule). Nothing
\* in the signature of addOrder restricts quantity, price or id.
Order == [id : 1..MaxId, type : OrderType, side : OrderSide,
          quantity : 0..MaxQty, price : Price,
          timestamp : 1..MaxTime, status : {"pending"}]

\* Orders as the data model describes them: limit orders carry a price,
\* market orders carry none, quantity > 0, and the n-th arrival has the fresh
\* id n and the arrival stamp n.
WellFormedOrder(n) ==
    {o \in [id : {n}, type : OrderType, side : OrderSide,
            quantity : 1..MaxQty, price : Price,
            timestamp : {n}, status : {"pending"}] :
        (o.type = "limit") <=> (o.price # <<>>)}

VARIABLES
    bids,          \* PriorityQueue.heap of the bid queue
    asks,          \* PriorityQueue.heap of the ask queue
    orders,        \* Map orderId -> Order: a function from the ids that have
                   \* an entry to the ref of the stored object
    nextTradeId,   \* OrderBook.nextTradeId
    created,       \* number of Order objects handed to addOrder so far
    pc,            \* "idle", or "matching" inside the loop of matchOrders
    trades,        \* local array trades of the running matchOrders call
    call,          \* the last call that returned: [op, arg]
    result         \* what that call returned

\* PlayerSession (player-session.ts)
VARIABLES
    state,         \* PlayerSession.state: [balance, inventory], inventory a
                   \* function from the item ids that have an entry
    sessionCall,   \* the last call on the session: [op, itemId, delta]
    thrown         \* <<>> when that call returned, <<message>> when it threw

\* worker thread (market-worker-thread.ts)
VARIABLES
    orderBook,       \* the SimpleOrderBook: [bids, asks, orders, nextTradeId]
    marketEngine,    \* the SimpleMarketEngine: [itemId, currentPrice]
    playerSessions,  \* Map playerId -> SimplePlayerSession [balance, inventory]
    request,         \* the last message the thread has handled
    response,        \* the response it has posted for that message
    submitted        \* number of submit-order messages sent to the thread

\* WorkerPool and MarketWorker (market-worker.ts)
VARIABLES
    workers,         \* WorkerPool.workers: Map itemId -> MarketWorker, a
                     \* function to the index of the object in marketWorkers
    marketWorkers,   \* the MarketWorker objects made so far
    threads,         \* the Worker threads made so far: [inbox, outbox, book,
                     \* owner, terminated]
    calls,           \* the calls of pool methods made so far
    isRunning        \* WorkerPool.isRunning

\* MarketEngine (market-engine.ts)
VARIABLES
    engine,          \* the MarketEngine: [currentPrice, config, buyVolume,
                     \* sellVolume, orderTimestamps]
    engineCall       \* the method of the engine that has run last

\* WorkerManager (worker-manager.ts)
VARIABLES
    manager,         \* the WorkerManager: [isRunning, orderProcessor,
                     \* priceProvider, workerAbortControllers, tickInterval,
                     \* stats]
    orderQueue,      \* WorkerManager.orderQueue: a BoundedQueue, or the
                     \* bounded Queue of the Effect runtime
    marketUpdates,   \* WorkerManager.marketUpdates: a MarketUpdateSubscriber
    runners,         \* the calls of runWorker, or the fibers of
                     \* processOrderQueue, in the order they were made
    broadcasts,      \* the calls of broadcastMarketUpdates that wait for the
                     \* price provider
    managerCalls     \* the calls of enqueueOrder, enqueueMarketTick and
                     \* subscribeToMarket, with what each has got

bookVars == <<bids, asks, orders, nextTradeId, created, pc, trades, call, result>>

sessionVars == <<state, sessionCall, thrown>>

workerVars ==
    <<orderBook, marketEngine, playerSessions, request, response, submitted>>

poolVars == <<workers, marketWorkers, threads, calls, isRunning>>

engineVars == <<engine, engineCall>>

managerVars ==
    <<manager, orderQueue, marketUpdates, runners, broadcasts, managerCalls>>

vars == <<bookVars, sessionVars, workerVars, poolVars, engineVars, managerVars>>

\* ---- PriorityQueue ---------------------------------------------------------
\* heap arrays are 0-based in the source; At reads index i of the array
At(heap, i) == heap[i + 1]

Swap(heap, i, j) ==
    [heap EXCEPT ![i + 1] = heap[j + 1], ![j + 1] = heap[i + 1]]

bidComparator(a, b) ==
    IF a.price = <<>> \/ b.price = <<>> THEN 0
    ELSE IF b.price[1] # a.price[1] THEN b.price[1] - a.price[1]
    ELSE a.timestamp - b.timestamp

askComparator(a, b) ==
    IF a.price = <<>> \/ b.price = <<>> THEN 0
    ELSE IF a.price[1] # b.price[1] THEN a.price[1] - b.price[1]
    ELSE a.timestamp - b.timestamp

comparator(side, a, b) ==
    IF side = "buy" THEN bidComparator(a, b) ELSE askComparator(a, b)

RECURSIVE bubbleUp(_, _, _)
bubbleUp(side, heap, index) ==
    IF index > 0
    THEN LET parentIndex == (index - 1) \div 2 IN
         IF comparator(side, At(heap, index), At(heap, parentIndex)) >= 0
         THEN heap
         ELSE bubbleUp(side, Swap(heap, index, parentIndex), parentIndex)
    ELSE heap

RECURSIVE bubbleDown(_, _, _)
bubbleDown(side, heap, index) ==
    LET length == Len(heap)
        leftChildIndex == 2 * index + 1
        rightChildIndex == 2 * index + 2
        swap1 == IF leftChildIndex < length
                    /\ comparator(side, At(heap, leftChildIndex), At(heap, index)) < 0
                 THEN leftChildIndex ELSE index
        swapIndex == IF rightChildIndex < length
                        /\ comparator(side, At(heap, rightChildIndex), At(heap, swap1)) < 0
                     THEN rightChildIndex ELSE swap1
    IN  IF swapIndex = index THEN heap
        ELSE bubbleDown(side, Swap(heap, index, swapIndex), swapIndex)

push(side, heap, item) == bubbleUp(side, Append(heap, item), Len(heap))

pop(side, heap) ==
    IF Len(heap) = 0 THEN heap
    ELSE LET last == heap[Len(heap)]
             rest == SubSeq(heap, 1, Len(heap) - 1)
         IN  IF Len(rest) > 0
             THEN bubbleDown(side, [rest EXCEPT ![1] = last], 0)
             ELSE rest

\* findIndex((o) => o.id === orderId): first index holding the id, or -1
findIndex(heap, orderId) ==
    IF \E i \in 1..Len(heap) : heap[i].id = orderId
    THEN (CHOOSE i \in 1..Len(heap) :
             /\ heap[i].id = orderId
             /\ \A j \in 1..(i - 1) : heap[j].id # orderId) - 1
    ELSE -1

remove(side, heap, orderId) ==
    LET index == findIndex(heap, orderId) IN
    IF index = -1 THEN heap
    ELSE LET last == heap[Len(heap)]
             rest == SubSeq(heap, 1, Len(heap) - 1)
         IN  IF index < Len(rest)
             THEN bubbleDown(side,
                             bubbleUp(side, [rest EXCEPT ![index + 1] = last], index),
                             index)
             ELSE rest

\* ---- Map -----------------------------------------------------------------
MapSet(map, key, value) ==
    [k \in DOMAIN map \cup {key} |-> IF k = key THEN value ELSE map[k]]

MapDelete(map, key) == [k \in DOMAIN map \ {key} |-> map[k]]

\* ---- OrderBook ------------------------------------------------------------
\* what a step of the order book leaves alone
notBook == <<sessionVars, workerVars, poolVars, engineVars, managerVars>>

InitOrderBook ==
    /\ bids = <<>>
    /\ asks = <<>>
    /\ orders = <<>>
    /\ nextTradeId = 0
    /\ created = 0
    /\ pc = "idle"
    /\ trades = <<>>
    /\ call = [op |-> "constructor", arg |-> 0]
    /\ result = <<>>

\* addOrder(order): the object gets the identity created + 1
addOrder(order) ==
    /\ pc = "idle"
    /\ LET obj == [ref |-> created + 1, id |-> order.id, type |-> order.type,
                   side |-> order.side, quantity |-> order.quantity,
                   price |-> order.price, timestamp |-> order.timestamp,
                   status |-> order.status]
       IN  /\ IF order.side = "buy"
              THEN bids' = push("buy", bids, obj) /\ asks' = asks
              ELSE asks' = push("sell", asks, obj) /\ bids' = bids
           /\ orders' = MapSet(orders, order.id, obj.ref)
    /\ created' = created + 1
    /\ call' = [op |-> "addOrder", arg |-> order.id]
    /\ result' = <<>>
    /\ UNCHANGED <<nextTradeId, pc, trades>>
    /\ UNCHANGED notBook

\* the Order object stored under orderId in the map
OrderOf(ref) ==
    CHOOSE o \in {bids[i] : i \in 1..Len(bids)} \cup {asks[i] : i \in 1..Len(asks)} :
        o.ref = ref

\* removeOrder with the two branches on order.side exchanged: the heap of the
\* other side is searched, and the order stays in its own
removeOrder_wrongHeap(orderId) ==
    /\ pc = "idle"
    /\ IF orderId \notin DOMAIN orders
       THEN /\ result' = FALSE
            /\ UNCHANGED <<bids, asks, orders>>
       ELSE /\ IF OrderOf(orders[orderId]).side = "buy"
               THEN asks' = remove("sell", asks, orderId) /\ bids' = bids
               ELSE bids' = remove("buy", bids, orderId) /\ asks' = asks
            /\ orders' = MapDelete(orders, orderId)
            /\ result' = TRUE
    /\ call' = [op |-> "removeOrder", arg |-> orderId]
    /\ UNCHANGED <<nextTradeId, created, pc, trades>>
    /\ UNCHANGED notBook

removeOrder(orderId) ==
    /\ pc = "idle"
    /\ IF orderId \notin DOMAIN orders
       THEN /\ result' = FALSE
            /\ UNCHANGED <<bids, asks, orders>>
       ELSE /\ IF OrderOf(orders[orderId]).side = "buy"
               THEN bids' = remove("buy", bids, orderId) /\ asks' = asks
               ELSE asks' = remove("sell", asks, orderId) /\ bids' = bids
            /\ orders' = MapDelete(orders, orderId)
            /\ result' = TRUE
    /\ call' = [op |-> "removeOrder", arg |-> orderId]
    /\ UNCHANGED <<nextTradeId, created, pc, trades>>
    /\ UNCHANGED notBook

\* handleCancelOrder (market-worker-thread.ts): the response the worker builds
\* from what removeOrder returned
cancelResponse(success) ==
    IF success THEN [type |-> "order-cancelled"]
    ELSE [type |-> "error", message |-> "Order not found"]

\* matchOrders(): entry, const trades = []
matchOrders ==
    /\ pc = "idle"
    /\ pc' = "matching"
    /\ trades' = <<>>
    /\ UNCHANGED <<bids, asks, orders, nextTradeId, created, call, result>>
    /\ UNCHANGED notBook

canMatch(bestBid, bestAsk) ==
    \/ bestBid.type = "market"
    \/ bestAsk.type = "market"
    \/ (bestBid.price # <<>> /\ bestAsk.price # <<>>
        /\ bestBid.price[1] >= bestAsk.price[1])

\* price ?? 0
OrZero(price) == IF price = <<>> THEN 0 ELSE price[1]

tradePrice(bestBid, bestAsk) ==
    IF bestBid.type = "market" THEN OrZero(bestAsk.price)
    ELSE IF bestAsk.type = "market" THEN OrZero(bestBid.price)
    ELSE bestAsk.price[1]

Min(a, b) == IF a <= b THEN a ELSE b

\* the loop continues: both sides present and the roots can match
Crossing == Len(bids) > 0 /\ Len(asks) > 0 /\ canMatch(bids[1], asks[1])

\* the Order object after the lines that update it for a trade of
\* tradeQuantity: the quantity goes down, and the status becomes partial if
\* quantity is left; a filled order is taken out and nothing else is written
settle(order, tradeQuantity) ==
    IF order.quantity - tradeQuantity = 0
    THEN [order EXCEPT !.quantity = 0]
    ELSE [order EXCEPT !.quantity = @ - tradeQuantity, !.status = "partial"]

\* one iteration of the while loop that emits a trade
matchIteration ==
    /\ pc = "matching"
    /\ Crossing
    /\ LET bestBid == bids[1]
           bestAsk == asks[1]
           tradeQuantity == Min(bestBid.quantity, bestAsk.quantity)
           trade == [id |-> nextTradeId, buyOrderId |-> bestBid.id,
                     sellOrderId |-> bestAsk.id, quantity |-> tradeQuantity,
                     price |-> tradePrice(bestBid, bestAsk)]
           bidLeft == bestBid.quantity - tradeQuantity
           askLeft == bestAsk.quantity - tradeQuantity
           orders1 == IF bidLeft = 0 THEN MapDelete(orders, bestBid.id)
                      ELSE orders
       IN  /\ trades' = Append(trades, trade)
           /\ nextTradeId' = nextTradeId + 1
           /\ bids' = IF bidLeft = 0 THEN pop("buy", bids)
                      ELSE [bids EXCEPT ![1] = settle(bestBid, tradeQuantity)]
           /\ asks' = IF askLeft = 0 THEN pop("sell", asks)
                      ELSE [asks EXCEPT ![1] = settle(bestAsk, tradeQuantity)]
           /\ orders' = IF askLeft = 0 THEN MapDelete(orders1, bestAsk.id)
                        ELSE orders1
    /\ UNCHANGED <<created, pc, call, result>>
    /\ UNCHANGED notBook

\* the loop breaks and matchOrders returns trades
matchReturn ==
    /\ pc = "matching"
    /\ ~Crossing
    /\ pc' = "idle"
    /\ call' = [op |-> "matchOrders", arg |-> 0]
    /\ result' = trades
    /\ trades' = <<>>
    /\ UNCHANGED <<bids, asks, orders, nextTradeId, created>>
    /\ UNCHANGED notBook

\* PriorityQueue.toArray(): a copy of the heap array
toArray(heap) == [i \in 1..Len(heap) |-> heap[i]]

getBids == toArray(bids)

getAsks == toArray(asks)

\* ---- callers of the order book --------------------------------------------
\* the n-th arrival is a well-formed order
arrive(bound) ==
    /\ created < bound
    /\ \E order \in WellFormedOrder(created + 1) : addOrder(order)

\* cancel of an id that arrived, or of the next id, which never did
cancel == \E orderId \in 1..(created + 1) : removeOrder(orderId)

Next ==
    arrive(MaxArrivals) \/ cancel \/ matchOrders \/ matchIteration \/ matchReturn

\* the same book with one more arrival, for heaps three levels deep
NextDeep ==
    arrive(MaxDepth) \/ cancel \/ matchOrders \/ matchIteration \/ matchReturn

\* the book as a class: any Order object, any id
addAnyOrder == created < MaxOrders /\ \E order \in Order : addOrder(order)

removeAnyOrder == \E orderId \in 1..MaxId : removeOrder(orderId)

NextAnyOrder ==
    addAnyOrder \/ removeAnyOrder \/ matchOrders \/ matchIteration \/ matchReturn

\* orders arrive, the book is matched, and from then on orders are only
\* cancelled and the book matched again
NextMatchedBook ==
    \/ (call.op \in {"constructor", "addOrder"} /\ arrive(MaxArrivals))
    \/ (call.op \in {"matchOrders", "removeOrder"} /\ cancel)
    \/ matchOrders \/ matchIteration \/ matchReturn

\* ---- PlayerSession (player-session.ts) -------------------------------------
ItemId == {"item-1", "item-2"}

\* what a step of the session leaves alone
notSession == <<bookVars, workerVars, poolVars, engineVars, managerVars>>

\* new PlayerSession(playerId): initialBalance defaults to 0
InitPlayerSession ==
    /\ state = [balance |-> 0, inventory |-> <<>>]
    /\ sessionCall = [op |-> "constructor", itemId |-> "", delta |-> 0]
    /\ thrown = <<>>

\* inventory.get(itemId) ?? 0
getInventory(inventory, itemId) ==
    IF itemId \in DOMAIN inventory THEN inventory[itemId] ELSE 0

updateBalance(delta) ==
    LET newBalance == state.balance + delta IN
    /\ IF newBalance < 0
       THEN /\ thrown' = <<"Insufficient balance">>
            /\ state' = state
       ELSE /\ thrown' = <<>>
            /\ state' = [state EXCEPT !.balance = newBalance]
    /\ sessionCall' = [op |-> "updateBalance", itemId |-> "", delta |-> delta]
    /\ UNCHANGED notSession

\* updateInventory without the check of the new quantity
updateInventory_unchecked(itemId, delta) ==
    LET currentQuantity == getInventory(state.inventory, itemId)
        newQuantity == currentQuantity + delta
    IN  /\ thrown' = <<>>
        /\ state' = [state EXCEPT !.inventory =
                        IF newQuantity = 0 THEN MapDelete(@, itemId)
                        ELSE MapSet(@, itemId, newQuantity)]
        /\ sessionCall' = [op |-> "updateInventory", itemId |-> itemId,
                           delta |-> delta]
        /\ UNCHANGED notSession

updateInventory(itemId, delta) ==
    LET currentQuantity == getInventory(state.inventory, itemId)
        newQuantity == currentQuantity + delta
    IN  /\ IF newQuantity < 0
           THEN /\ thrown' = <<"Insufficient inventory">>
                /\ state' = state
           ELSE /\ thrown' = <<>>
                /\ state' = [state EXCEPT !.inventory =
                                IF newQuantity = 0 THEN MapDelete(@, itemId)
                                ELSE MapSet(@, itemId, newQuantity)]
        /\ sessionCall' = [op |-> "updateInventory", itemId |-> itemId,
                           delta |-> delta]
        /\ UNCHANGED notSession

\* callers of the session: any delta, as long as the ledger stays in the
\* bounds of the model
adjustBalance ==
    \E delta \in (0 - MaxDelta)..MaxDelta :
        /\ state.balance + delta <= MaxBalance
        /\ updateBalance(delta)

adjustInventory ==
    \E itemId \in ItemId : \E delta \in (0 - MaxDelta)..MaxDelta :
        /\ getInventory(state.inventory, itemId) + delta <= MaxHolding
        /\ updateInventory(itemId, delta)

NextPlayerSession == adjustBalance \/ adjustInventory

\* setState(newState): the balance and a copy of the inventory map, as given
setState(newState) ==
    /\ state' = [balance |-> newState.balance,
                 inventory |-> [k \in DOMAIN newState.inventory |->
                                   newState.inventory[k]]]
    /\ thrown' = <<>>
    /\ sessionCall' = [op |-> "setState", itemId |-> "", delta |-> 0]
    /\ UNCHANGED notSession

\* a PlayerSessionState: a balance and a Map<string, number>
PlayerSessionState ==
    UNION {[balance : 0..MaxBalance, inventory : [items -> 0..MaxHolding]] :
              items \in SUBSET ItemId}

stateSet == \E newState \in PlayerSessionState : setState(newState)

NextPlayerSessionReset == adjustBalance \/ adjustInventory \/ stateSet

\* ---- worker thread (market-worker-thread.ts) --------------------------------
PlayerId == {"player-1", "player-2"}

\* the market this worker serves; the pool routes to it by order.itemId
WorkerItem == "item-1"

\* getPlayerSession: new SimplePlayerSession(playerId, 1000000)
InitialBalance == 1000000

\* getPlayerSessionForOrder: session.updateInventory(order.itemId, 1000)
GrantedInventory == 1000

\* prices and quantities of the orders sent to the worker: the small ones of
\* the model and one that a fresh session cannot cover
WorkerPrice == {<<>>} \cup {<<p>> : p \in (1..MaxWorkerPrice) \cup {InitialBalance}}

WorkerQuantity == (1..MaxWorkerQty) \cup {GrantedInventory + 1}

\* the n-th order sent to the worker: fresh id n, arrival stamp n, a price
\* exactly on limit orders
SubmittedOrder(n) ==
    {o \in [id : {n}, playerId : PlayerId, itemId : {WorkerItem},
            type : OrderType, side : OrderSide, quantity : WorkerQuantity,
            price : WorkerPrice, timestamp : {n}, status : {"pending"}] :
        (o.type = "limit") <=> (o.price # <<>>)}

\* what a step of the worker thread leaves alone
notWorker == <<bookVars, sessionVars, poolVars, engineVars, managerVars>>

\* class SimpleOrderBook: bids and asks are sorted arrays; of the object
\* stored under an id in the orders map only the side is read
SimpleOrderBook == [bids |-> <<>>, asks |-> <<>>, orders |-> <<>>, nextTradeId |-> 0]

\* the comparators handed to sort in addOrder; price || 0
sortComparator(side, a, b) ==
    LET priceDiff == IF side = "buy" THEN OrZero(b.price) - OrZero(a.price)
                     ELSE OrZero(a.price) - OrZero(b.price)
    IN  IF priceDiff # 0 THEN priceDiff ELSE a.timestamp - b.timestamp

\* Array.prototype.sort is stable: an insertion sort that keeps the order of
\* elements the comparator does not separate
RECURSIVE insertSorted(_, _, _)
insertSorted(side, array, order) ==
    IF array = <<>> THEN <<order>>
    ELSE IF sortComparator(side, Head(array), order) > 0
         THEN <<order>> \o array
         ELSE <<Head(array)>> \o insertSorted(side, Tail(array), order)

RECURSIVE sort(_, _)
sort(side, array) ==
    IF array = <<>> THEN <<>>
    ELSE insertSorted(side, sort(side, SubSeq(array, 1, Len(array) - 1)),
                      array[Len(array)])

SimpleOrderBook_addOrder(book, order) ==
    [book EXCEPT
        !.bids = IF order.side = "buy" THEN sort("buy", Append(@, order)) ELSE @,
        !.asks = IF order.side = "buy" THEN @ ELSE sort("sell", Append(@, order)),
        !.orders = MapSet(@, order.id, order.side)]

filter(array, orderId) == SelectSeq(array, LAMBDA o : o.id # orderId)

\* returns [success, book]
SimpleOrderBook_removeOrder(book, orderId) ==
    IF orderId \notin DOMAIN book.orders
    THEN [success |-> FALSE, book |-> book]
    ELSE [success |-> TRUE,
          book |-> [book EXCEPT
                      !.bids = IF book.orders[orderId] = "buy"
                               THEN filter(@, orderId) ELSE @,
                      !.asks = IF book.orders[orderId] = "buy"
                               THEN @ ELSE filter(@, orderId),
                      !.orders = MapDelete(@, orderId)]]

\* the while loop of matchOrders (canMatch, tradePrice and Math.min are the
\* lines of OrderBook.matchOrders); returns [trades, book]
RECURSIVE SimpleOrderBook_matchLoop(_, _)
SimpleOrderBook_matchLoop(book, tradesSoFar) ==
    IF Len(book.bids) > 0 /\ Len(book.asks) > 0
       /\ canMatch(book.bids[1], book.asks[1])
    THEN LET bestBid == book.bids[1]
             bestAsk == book.asks[1]
             tradeQuantity == Min(bestBid.quantity, bestAsk.quantity)
             trade == [id |-> book.nextTradeId, buyOrderId |-> bestBid.id,
                       sellOrderId |-> bestAsk.id, itemId |-> bestBid.itemId,
                       quantity |-> tradeQuantity,
                       price |-> tradePrice(bestBid, bestAsk)]
             bidLeft == bestBid.quantity - tradeQuantity
             askLeft == bestAsk.quantity - tradeQuantity
             orders1 == IF bidLeft = 0 THEN MapDelete(book.orders, bestBid.id)
                        ELSE book.orders
         IN  SimpleOrderBook_matchLoop(
                 [bids |-> IF bidLeft = 0 THEN Tail(book.bids)
                           ELSE [book.bids EXCEPT ![1].quantity = bidLeft],
                  asks |-> IF askLeft = 0 THEN Tail(book.asks)
                           ELSE [book.asks EXCEPT ![1].quantity = askLeft],
                  orders |-> IF askLeft = 0 THEN MapDelete(orders1, bestAsk.id)
                             ELSE orders1,
                  nextTradeId |-> book.nextTradeId + 1],
                 Append(tradesSoFar, trade))
    ELSE [trades |-> tradesSoFar, book |-> book]

SimpleOrderBook_matchOrders(book) == SimpleOrderBook_matchLoop(book, <<>>)

\* ---- the two order books side by side --------------------------------------
\* the Order a caller hands to both books: the object the OrderBook has just
\* stored, without its identity
Given(obj) ==
    [id |-> obj.id, playerId |-> "player-1", itemId |-> WorkerItem,
     type |-> obj.type, side |-> obj.side, quantity |-> obj.quantity,
     price |-> obj.price, timestamp |-> obj.timestamp, status |-> obj.status]

\* what tells one returned call of the OrderBook from the next
LastCall ==
    [type |-> "replay", call |-> call, created |-> created,
     nextTradeId |-> nextTradeId, resting |-> DOMAIN orders,
     returned |-> IF call.op = "matchOrders" THEN Len(result)
                  ELSE IF call.op = "removeOrder" /\ result THEN 1 ELSE 0]

\* the SimpleOrderBook has had every call the OrderBook has returned from
Replayed == request = LastCall

\* the caller makes the call the OrderBook has just returned from on the
\* SimpleOrderBook too
replay ==
    /\ pc = "idle"
    /\ ~Replayed
    /\ request' = LastCall
    /\ IF call.op = "constructor"
       THEN /\ orderBook' = SimpleOrderBook
            /\ response' = [type |-> "constructor", success |-> TRUE, trades |-> <<>>]
       ELSE IF call.op = "addOrder"
       THEN /\ orderBook' = SimpleOrderBook_addOrder(
                                orderBook, Given(OrderOf(orders[call.arg])))
            /\ response' = [type |-> "addOrder", success |-> TRUE, trades |-> <<>>]
       ELSE IF call.op = "removeOrder"
       THEN LET removed == SimpleOrderBook_removeOrder(orderBook, call.arg)
            IN  /\ orderBook' = removed.book
                /\ response' = [type |-> "removeOrder", success |-> removed.success,
                                trades |-> <<>>]
       ELSE LET matched == SimpleOrderBook_matchOrders(orderBook)
            IN  /\ orderBook' = matched.book
                /\ response' = [type |-> "matchOrders", success |-> TRUE,
                                trades |-> matched.trades]
    /\ UNCHANGED <<marketEngine, playerSessions, submitted, notWorker>>

\* every call of the OrderBook is made on the SimpleOrderBook before the next
NextBothBooks ==
    \/ (Replayed /\ arrive(MaxArrivals))
    \/ (Replayed /\ cancel)
    \/ (Replayed /\ matchOrders)
    \/ matchIteration \/ matchReturn
    \/ replay

\* class SimplePlayerSession
SimplePlayerSession(initialBalance) ==
    [balance |-> initialBalance, inventory |-> <<>>]

hasSufficientBalance(session, amount) == session.balance >= amount

hasSufficientInventory(session, itemId, quantity) ==
    getInventory(session.inventory, itemId) >= quantity

\* returns [thrown, session]: thrown is <<>>, or <<message>> of the Error
SimplePlayerSession_updateBalance(session, delta) ==
    LET newBalance == session.balance + delta IN
    IF newBalance < 0
    THEN [thrown |-> <<"Insufficient balance">>, session |-> session]
    ELSE [thrown |-> <<>>, session |-> [session EXCEPT !.balance = newBalance]]

SimplePlayerSession_updateInventory(session, itemId, delta) ==
    LET currentQuantity == getInventory(session.inventory, itemId)
        newQuantity == currentQuantity + delta
    IN  IF newQuantity < 0
        THEN [thrown |-> <<"Insufficient inventory">>, session |-> session]
        ELSE [thrown |-> <<>>,
              session |-> [session EXCEPT !.inventory =
                              IF newQuantity = 0 THEN MapDelete(@, itemId)
                              ELSE MapSet(@, itemId, newQuantity)]]

\* the registry after getPlayerSession(playerId); the session it returns is
\* the entry of playerId
getPlayerSession(sessions, playerId) ==
    IF playerId \in DOMAIN sessions THEN sessions
    ELSE MapSet(sessions, playerId, SimplePlayerSession(InitialBalance))

\* returns [thrown, sessions]
getPlayerSessionForOrder(sessions, order) ==
    LET registry == getPlayerSession(sessions, order.playerId)
        session == registry[order.playerId]
    IN  IF order.side = "sell"
           /\ ~hasSufficientInventory(session, order.itemId, order.quantity)
        THEN LET update == SimplePlayerSession_updateInventory(
                               session, order.itemId, GrantedInventory)
             IN  [thrown |-> update.thrown,
                  sessions |-> MapSet(registry, order.playerId, update.session)]
        ELSE [thrown |-> <<>>, sessions |-> registry]

\* what a handler leaves behind: [response, playerSessions, orderBook]
Outcome(resp, sessions, book) ==
    [response |-> resp, playerSessions |-> sessions, orderBook |-> book]

\* catch (error) in handleMessage
errorResponse(message) == [type |-> "error", message |-> message]

\* the end of handleSubmitOrder, after the update of the session: a throw of
\* the update goes to the catch of handleMessage, otherwise the order enters
\* the book
enterBook(update, sessions, order) ==
    IF update.thrown # <<>>
    THEN Outcome(errorResponse(update.thrown[1]), sessions, orderBook)
    ELSE Outcome([type |-> "order-submitted", orderId |-> order.id, trades |-> <<>>],
                 MapSet(sessions, order.playerId, update.session),
                 SimpleOrderBook_addOrder(orderBook, order))

\* handleSubmitOrder that takes the cost or the quantity off the session
\* without asking the session whether it can cover it
handleSubmitOrder_unchecked(order) ==
    LET sessions == getPlayerSession(playerSessions, order.playerId)
        session == sessions[order.playerId]
    IN  IF order.side = "buy"
        THEN enterBook([thrown |-> <<>>,
                        session |-> [session EXCEPT !.balance =
                                        @ - OrZero(order.price) * order.quantity]],
                       sessions, order)
        ELSE enterBook([thrown |-> <<>>,
                        session |-> [session EXCEPT !.inventory =
                                        MapSet(@, order.itemId,
                                               getInventory(@, order.itemId)
                                                  - order.quantity)]],
                       sessions, order)

handleSubmitOrder(order) ==
    LET found == getPlayerSessionForOrder(playerSessions, order)
        sessions == found.sessions
        session == sessions[order.playerId]
    IN  IF found.thrown # <<>>
        THEN Outcome(errorResponse(found.thrown[1]), sessions, orderBook)
        ELSE IF order.side = "buy"
        THEN LET cost == OrZero(order.price) * order.quantity IN
             IF ~hasSufficientBalance(session, cost)
             THEN Outcome(errorResponse("Insufficient balance"), sessions, orderBook)
             ELSE enterBook(SimplePlayerSession_updateBalance(session, 0 - cost),
                            sessions, order)
        ELSE IF ~hasSufficientInventory(session, order.itemId, order.quantity)
             THEN Outcome(errorResponse("Insufficient inventory"), sessions, orderBook)
             ELSE enterBook(SimplePlayerSession_updateInventory(
                                session, order.itemId, 0 - order.quantity),
                            sessions, order)

handleCancelOrder(orderId) ==
    LET removed == SimpleOrderBook_removeOrder(orderBook, orderId) IN
    Outcome(cancelResponse(removed.success), playerSessions, removed.book)

handleGetOrderBook ==
    Outcome([type |-> "order-book", bids |-> orderBook.bids, asks |-> orderBook.asks],
            playerSessions, orderBook)

\* handleTick, after marketEngine.updatePrice() has set currentPrice
handleTick(currentPrice) ==
    LET matched == SimpleOrderBook_matchOrders(orderBook) IN
    Outcome([type |-> "tick-completed", trades |-> matched.trades,
             currentPrice |-> currentPrice],
            playerSessions, matched.book)

\* worker thread after the 'initialize' message that MarketWorker posts
\* first: initialize(itemId, initialPrice), no session yet
InitWorkerThread ==
    /\ orderBook = SimpleOrderBook
    /\ marketEngine = [itemId |-> WorkerItem, currentPrice |-> 1]
    /\ playerSessions = <<>>
    /\ request = [type |-> "initialize"]
    /\ response = [type |-> "order-submitted", orderId |-> 0, trades |-> <<>>]
    /\ submitted = 0

\* self.onmessage for a message data whose handler leaves outcome
onmessage(data, outcome) ==
    /\ request' = data
    /\ response' = outcome.response
    /\ playerSessions' = outcome.playerSessions
    /\ orderBook' = outcome.orderBook

submitOrderMessage ==
    /\ submitted < MaxSubmits
    /\ \E order \in SubmittedOrder(submitted + 1) :
          onmessage([type |-> "submit-order", order |-> order],
                    handleSubmitOrder(order))
    /\ submitted' = submitted + 1
    /\ UNCHANGED <<marketEngine, notWorker>>

\* cancel of an id that was sent, or of the next id, which never was
cancelOrderMessage ==
    /\ \E orderId \in 1..(submitted + 1) :
          onmessage([type |-> "cancel-order", orderId |-> orderId],
                    handleCancelOrder(orderId))
    /\ UNCHANGED <<marketEngine, submitted, notWorker>>

getOrderBookMessage ==
    /\ onmessage([type |-> "get-order-book"], handleGetOrderBook)
    /\ UNCHANGED <<marketEngine, submitted, notWorker>>

\* updatePrice draws the new price at random: Math.max(gbmPrice, 0.01) is
\* some price > 0
tickMessage ==
    /\ \E currentPrice \in 1..MaxWorkerPrice :
          /\ marketEngine' = [marketEngine EXCEPT !.currentPrice = currentPrice]
          /\ onmessage([type |-> "tick"], handleTick(currentPrice))
    /\ UNCHANGED <<submitted, notWorker>>

NextWorker ==
    submitOrderMessage \/ cancelOrderMessage \/ getOrderBookMessage \/ tickMessage

\* the restart of a crashed worker as its thread sees it: the thread is
\* terminated, MarketWorker.spawnWorker makes a new thread, whose module state
\* is new (playerSessions = new Map()), and sends it initialize with the
\* initial price of the MarketWorker
restartedThread ==
    /\ orderBook' = SimpleOrderBook
    /\ marketEngine' = [itemId |-> WorkerItem, currentPrice |-> 1]
    /\ playerSessions' = <<>>
    /\ request' = [type |-> "initialize"]
    /\ response' = [type |-> "order-submitted", orderId |-> 0, trades |-> <<>>]
    /\ UNCHANGED <<submitted, notWorker>>

NextWorkerRestart == NextWorker \/ restartedThread

\* ---- MarketWorker and WorkerPool (the classes of market-worker.ts) ----------
\* what a step of the pool, of a MarketWorker or of one of its threads leaves
\* alone
notPool == <<bookVars, sessionVars, workerVars, engineVars, managerVars>>

InitWorkerPool ==
    /\ workers = <<>>
    /\ marketWorkers = <<>>
    /\ threads = <<>>
    /\ calls = <<>>
    /\ isRunning = FALSE

\* new MarketWorker(itemId, initialPrice): worker 0 is null, restartTimeout
\* <<>> is no timer and <<backoffMs>> the timer that is set
MarketWorker(itemId) ==
    [itemId |-> itemId, isRunning |-> FALSE, worker |-> 0,
     pendingResponses |-> <<>>, nextMessageId |-> 0,
     crashCount |-> 0, restartTimeout |-> <<>>]

\* new Worker(workerPath) of MarketWorker owner: a thread that has received
\* and posted nothing, with the orders its book holds; its onmessage and
\* onerror handlers are closures of the owner
Worker(owner) ==
    [inbox |-> <<>>, outbox |-> <<>>, book |-> {}, owner |-> owner,
     terminated |-> FALSE]

\* worker.postMessage(message)
postMessage(thread, message) == [thread EXCEPT !.inbox = Append(@, message)]

\* a message of the protocol; messageId <<>> is a message without _messageId
Message(type, itemId, orderId, messageId) ==
    [type |-> type, itemId |-> itemId, orderId |-> orderId, messageId |-> messageId]

\* a call of a method of the pool: pc is where the call stands, worker the
\* MarketWorker a spawnWorker call has made, entries and results the locals
\* of tickAll, result what the call has returned
Call(op, itemId, orderId, at) ==
    [op |-> op, itemId |-> itemId, orderId |-> orderId, pc |-> at, worker |-> 0,
     entries |-> <<>>, results |-> <<>>, result |-> <<>>]

Response(type, message) == [type |-> type, message |-> message]

\* WorkerPool.spawnWorker up to its await: the check of the map, new
\* MarketWorker, and start() up to its own await, that is the whole of
\* MarketWorker.spawnWorker: new Worker and the initialize message
WorkerPool_spawnWorker(itemId) ==
    /\ Len(calls) < MaxCalls
    /\ IF itemId \in DOMAIN workers
       THEN /\ calls' = Append(calls, Call("spawnWorker", itemId, 0, "returned"))
            /\ UNCHANGED <<marketWorkers, threads>>
       ELSE /\ marketWorkers' =
                  Append(marketWorkers,
                         [MarketWorker(itemId) EXCEPT !.worker = Len(threads) + 1])
            /\ threads' =
                  Append(threads,
                         postMessage(Worker(Len(marketWorkers) + 1),
                                     Message("initialize", itemId, 0, <<>>)))
            /\ calls' =
                  Append(calls,
                         [Call("spawnWorker", itemId, 0, "start")
                             EXCEPT !.worker = Len(marketWorkers) + 1])
    /\ UNCHANGED <<workers, isRunning, notPool>>

\* MarketWorker.start after await this.spawnWorker()
MarketWorker_start(c) ==
    /\ calls[c].pc = "start"
    /\ marketWorkers' = [marketWorkers EXCEPT ![calls[c].worker].isRunning = TRUE]
    /\ calls' = [calls EXCEPT ![c].pc = IF calls[c].op = "spawnWorker"
                                        THEN "started" ELSE "returned"]
    /\ UNCHANGED <<workers, threads, isRunning, notPool>>

\* WorkerPool.spawnWorker after await worker.start()
WorkerPool_spawnWorker_set(c) ==
    /\ calls[c].pc = "started"
    /\ workers' = MapSet(workers, calls[c].itemId, calls[c].worker)
    /\ calls' = [calls EXCEPT ![c].pc = "returned"]
    /\ UNCHANGED <<marketWorkers, threads, isRunning, notPool>>

\* this.workers.get(itemId) that returns the first worker of the map
workersGet_first(itemId) ==
    IF DOMAIN workers = {} THEN 0
    ELSE workers[CHOOSE i \in DOMAIN workers : TRUE]

\* this.workers.get(itemId): 0 is undefined
workersGet(itemId) ==
    IF itemId \in DOMAIN workers THEN workers[itemId] ELSE 0

\* MarketWorker.sendMessage of MarketWorker w, up to the promise: the state
\* of the MarketWorkers and threads after it, and <<response>> when the promise
\* is resolved at once; resolver names the promise, [call, itemId]
sendMessage(mws, ths, w, type, itemId, orderId, resolver) ==
    IF mws[w].worker = 0 \/ ~mws[w].isRunning
    THEN [marketWorkers |-> mws, threads |-> ths,
          resolved |-> <<Response("error", "Worker not running")>>]
    ELSE LET messageId == mws[w].nextMessageId IN
         [marketWorkers |->
              [mws EXCEPT ![w].nextMessageId = messageId + 1,
                          ![w].pendingResponses = MapSet(@, messageId, resolver)],
          threads |->
              [ths EXCEPT ![mws[w].worker] =
                  postMessage(@, Message(type, itemId, orderId, <<messageId>>))],
          resolved |-> <<>>]

\* submitOrder, cancelOrder, getOrderBook and tick of the pool: look the
\* worker up, answer 'No worker for item' or hand the message to it
route(op, type, itemId, messageItem, orderId) ==
    /\ Len(calls) < MaxCalls
    /\ LET w == workersGet(itemId)
           made == Call(op, itemId, orderId, "awaiting")
       IN  IF w = 0
           THEN /\ calls' = Append(calls,
                       [made EXCEPT !.pc = "returned",
                                    !.result = Response("error", "No worker for item")])
                /\ UNCHANGED <<marketWorkers, threads>>
           ELSE LET sent == sendMessage(marketWorkers, threads, w, type, messageItem,
                                        orderId,
                                        [call |-> Len(calls) + 1, itemId |-> itemId])
                IN  /\ marketWorkers' = sent.marketWorkers
                    /\ threads' = sent.threads
                    /\ calls' = Append(calls,
                          IF sent.resolved = <<>> THEN made
                          ELSE [made EXCEPT !.pc = "returned",
                                            !.result = sent.resolved[1]])
    /\ UNCHANGED <<workers, isRunning, notPool>>

WorkerPool_submitOrder ==
    \E itemId \in ItemId : \E orderId \in 1..MaxPoolOrderId :
        route("submitOrder", "submit-order", itemId, itemId, orderId)

WorkerPool_cancelOrder ==
    \E itemId \in ItemId : \E orderId \in 1..MaxPoolOrderId :
        route("cancelOrder", "cancel-order", itemId, "", orderId)

WorkerPool_getOrderBook ==
    \E itemId \in ItemId : route("getOrderBook", "get-order-book", itemId, "", 0)

WorkerPool_tick ==
    \E itemId \in ItemId : route("tick", "tick", itemId, "", 0)

\* the map callback of tickAll run over the entries items: worker.tick() of
\* each up to its promise; returns [marketWorkers, threads, results]
RECURSIVE tickEach(_, _, _, _, _)
tickEach(items, mws, ths, results, c) ==
    IF items = {} THEN [marketWorkers |-> mws, threads |-> ths, results |-> results]
    ELSE LET itemId == CHOOSE i \in items : TRUE
             sent == sendMessage(mws, ths, workers[itemId], "tick", "", 0,
                                 [call |-> c, itemId |-> itemId])
         IN  tickEach(items \ {itemId}, sent.marketWorkers, sent.threads,
                      IF sent.resolved = <<>> THEN results
                      ELSE MapSet(results, itemId, sent.resolved[1]),
                      c)

\* WorkerPool.tickAll up to await Promise.all(tickPromises)
WorkerPool_tickAll ==
    /\ Len(calls) < MaxCalls
    /\ LET sent == tickEach(DOMAIN workers, marketWorkers, threads, <<>>,
                            Len(calls) + 1)
       IN  /\ marketWorkers' = sent.marketWorkers
           /\ threads' = sent.threads
           /\ calls' = Append(calls,
                 [Call("tickAll", "", 0, "awaiting")
                     EXCEPT !.entries = workers, !.results = sent.results])
    /\ UNCHANGED <<workers, isRunning, notPool>>

\* tickAll that goes on as soon as one of the promises is resolved
WorkerPool_tickAll_race(c) ==
    /\ calls[c].op = "tickAll"
    /\ calls[c].pc = "awaiting"
    /\ DOMAIN calls[c].results # {} \/ DOMAIN calls[c].entries = {}
    /\ calls' = [calls EXCEPT ![c].pc = "returned", ![c].result = calls[c].results]
    /\ UNCHANGED <<workers, marketWorkers, threads, isRunning, notPool>>

\* WorkerPool.tickAll after await Promise.all(tickPromises): every promise is
\* resolved; return results
WorkerPool_tickAll_return(c) ==
    /\ calls[c].op = "tickAll"
    /\ calls[c].pc = "awaiting"
    /\ DOMAIN calls[c].results = DOMAIN calls[c].entries
    /\ calls' = [calls EXCEPT ![c].pc = "returned", ![c].result = calls[c].results]
    /\ UNCHANGED <<workers, marketWorkers, threads, isRunning, notPool>>

\* the promise named by resolver is resolved with response: a routed call
\* returns it, a callback of tickAll does results.set(itemId, result)
resolve(callSeq, resolver, resp) ==
    IF callSeq[resolver.call].op = "tickAll"
    THEN [callSeq EXCEPT ![resolver.call].results = MapSet(@, resolver.itemId, resp)]
    ELSE [callSeq EXCEPT ![resolver.call].pc = "returned",
                         ![resolver.call].result = resp]

\* what the thread's handleMessage can answer to data with this book, and the
\* book it leaves: [response, book]. A submit-order is accepted or refused by
\* the ledger (handleSubmitOrder), a cancel-order finds the id or not
handleMessage(book, data) ==
    CASE data.type = "initialize" ->
            {[response |-> Response("order-submitted", ""), book |-> {}]}
      [] data.type = "submit-order" ->
            {[response |-> Response("order-submitted", ""),
              book |-> book \cup {[id |-> data.orderId, itemId |-> data.itemId]}],
             [response |-> Response("error", "Insufficient balance"), book |-> book]}
      [] data.type = "cancel-order" ->
            IF \E o \in book : o.id = data.orderId
            THEN {[response |-> Response("order-cancelled", ""),
                   book |-> {o \in book : o.id # data.orderId}]}
            ELSE {[response |-> Response("error", "Order not found"), book |-> book]}
      [] data.type = "get-order-book" ->
            {[response |-> Response("order-book", ""), book |-> book]}
      [] data.type = "tick" ->
            {[response |-> Response("tick-completed", ""), book |-> book]}

\* self.onmessage of thread t: handle the next message, post the response
\* with the message's _messageId
self_onmessage(t) ==
    /\ ~threads[t].terminated
    /\ threads[t].inbox # <<>>
    /\ LET data == Head(threads[t].inbox) IN
       \E handled \in handleMessage(threads[t].book, data) :
          threads' = [threads EXCEPT
                         ![t].inbox = Tail(@),
                         ![t].outbox = Append(@, [response |-> handled.response,
                                                  messageId |-> data.messageId]),
                         ![t].book = handled.book]
    /\ UNCHANGED <<workers, marketWorkers, calls, isRunning, notPool>>

\* this.worker.onmessage of MarketWorker w: the next response of a thread it
\* has made. A response that its thread posted before terminate() may still
\* be delivered, the handler staying on the Worker object
MarketWorker_onmessage(w) ==
    \E t \in 1..Len(threads) :
    /\ threads[t].owner = w
    /\ threads[t].outbox # <<>>
    /\ LET event == Head(threads[t].outbox)
           pending == marketWorkers[w].pendingResponses
       IN  /\ threads' = [threads EXCEPT ![t].outbox = Tail(@)]
           /\ IF event.messageId # <<>> /\ event.messageId[1] \in DOMAIN pending
              THEN /\ marketWorkers' =
                         [marketWorkers EXCEPT ![w].pendingResponses =
                             MapDelete(@, event.messageId[1])]
                   /\ calls' = resolve(calls, pending[event.messageId[1]],
                                       event.response)
              ELSE UNCHANGED <<marketWorkers, calls>>
    /\ UNCHANGED <<workers, isRunning, notPool>>

\* the setTimeout callback of sendMessage for messageId: it is cleared when
\* the response has come, so it runs only while the entry is pending
timeout(w, messageId) ==
    /\ messageId \in DOMAIN marketWorkers[w].pendingResponses
    /\ marketWorkers' =
          [marketWorkers EXCEPT ![w].pendingResponses = MapDelete(@, messageId)]
    /\ calls' = resolve(calls, marketWorkers[w].pendingResponses[messageId],
                        Response("error", "Worker response timeout"))
    /\ UNCHANGED <<workers, threads, isRunning, notPool>>

\* callers of the pool and the event loop
spawn == \E itemId \in ItemId : WorkerPool_spawnWorker(itemId)

started == \E c \in 1..Len(calls) : MarketWorker_start(c)

registered == \E c \in 1..Len(calls) : WorkerPool_spawnWorker_set(c)

tickAllReturns == \E c \in 1..Len(calls) : WorkerPool_tickAll_return(c)

threadRuns == \E t \in 1..Len(threads) : self_onmessage(t)

responseArrives == \E w \in 1..Len(marketWorkers) : MarketWorker_onmessage(w)

timerFires ==
    \E w \in 1..Len(marketWorkers) :
        \E messageId \in DOMAIN marketWorkers[w].pendingResponses :
            timeout(w, messageId)

NextPool ==
    \/ spawn \/ started \/ registered
    \/ WorkerPool_submitOrder \/ WorkerPool_cancelOrder
    \/ WorkerPool_getOrderBook \/ WorkerPool_tick
    \/ WorkerPool_tickAll \/ tickAllReturns
    \/ threadRuns \/ responseArrives \/ timerFires

\* ---- life cycle of MarketWorker and WorkerPool (market-worker.ts) ------------
\* worker.terminate() of thread t: the messages it has not handled are lost
terminate(ths, t) == [ths EXCEPT ![t].terminated = TRUE, ![t].inbox = <<>>]

\* the callbacks of the map pending called with resp, one after the other
RECURSIVE resolveAll(_, _, _)
resolveAll(callSeq, pending, resp) ==
    IF DOMAIN pending = {} THEN callSeq
    ELSE LET messageId == CHOOSE m \in DOMAIN pending : TRUE
         IN  resolveAll(resolve(callSeq, pending[messageId], resp),
                        MapDelete(pending, messageId), resp)

\* MarketWorker.stop that forgets the pending requests without answering them
MarketWorker_stop_silent(mws, ths, callSeq, w) ==
    IF ~mws[w].isRunning
    THEN [marketWorkers |-> mws, threads |-> ths, calls |-> callSeq]
    ELSE [marketWorkers |->
              [mws EXCEPT ![w].isRunning = FALSE, ![w].restartTimeout = <<>>,
                          ![w].worker = 0, ![w].pendingResponses = <<>>],
          threads |-> IF mws[w].worker # 0 THEN terminate(ths, mws[w].worker) ELSE ths,
          calls |-> callSeq]

\* MarketWorker.stop of MarketWorker w, which has no await and so runs as a
\* whole where it is called: [marketWorkers, threads, calls] after it
MarketWorker_stop(mws, ths, callSeq, w) ==
    IF ~mws[w].isRunning
    THEN [marketWorkers |-> mws, threads |-> ths, calls |-> callSeq]
    ELSE [marketWorkers |->
              [mws EXCEPT ![w].isRunning = FALSE, ![w].restartTimeout = <<>>,
                          ![w].worker = 0, ![w].pendingResponses = <<>>],
          threads |-> IF mws[w].worker # 0 THEN terminate(ths, mws[w].worker) ELSE ths,
          calls |-> resolveAll(callSeq, mws[w].pendingResponses,
                               Response("error", "Worker stopped"))]

\* WorkerPool.start
WorkerPool_start ==
    /\ Len(calls) < MaxCalls
    /\ isRunning' = TRUE
    /\ calls' = Append(calls, Call("start", "", 0, "returned"))
    /\ UNCHANGED <<workers, marketWorkers, threads, notPool>>

\* the map callback of stop run over the values of this.workers: worker.stop()
\* of each
RECURSIVE stopEach(_, _, _, _)
stopEach(items, mws, ths, callSeq) ==
    IF items = {} THEN [marketWorkers |-> mws, threads |-> ths, calls |-> callSeq]
    ELSE LET itemId == CHOOSE i \in items : TRUE
             stopped == MarketWorker_stop(mws, ths, callSeq, workers[itemId])
         IN  stopEach(items \ {itemId}, stopped.marketWorkers, stopped.threads,
                      stopped.calls)

\* WorkerPool.stop up to await Promise.all(stopPromises)
WorkerPool_stop ==
    /\ Len(calls) < MaxCalls
    /\ IF ~isRunning
       THEN /\ calls' = Append(calls, Call("stop", "", 0, "returned"))
            /\ UNCHANGED <<marketWorkers, threads, isRunning>>
       ELSE LET stopped == stopEach(DOMAIN workers, marketWorkers, threads,
                                    Append(calls, Call("stop", "", 0, "stopping")))
            IN  /\ isRunning' = FALSE
                /\ marketWorkers' = stopped.marketWorkers
                /\ threads' = stopped.threads
                /\ calls' = stopped.calls
    /\ UNCHANGED <<workers, notPool>>

\* WorkerPool.stop after await Promise.all(stopPromises): this.workers.clear()
WorkerPool_stop_clear(c) ==
    /\ calls[c].pc = "stopping"
    /\ workers' = <<>>
    /\ calls' = [calls EXCEPT ![c].pc = "returned"]
    /\ UNCHANGED <<marketWorkers, threads, isRunning, notPool>>

\* WorkerPool.removeWorker up to await worker.stop()
WorkerPool_removeWorker(itemId) ==
    /\ Len(calls) < MaxCalls
    /\ LET w == workersGet(itemId) IN
       IF w = 0
       THEN /\ calls' = Append(calls, Call("removeWorker", itemId, 0, "returned"))
            /\ UNCHANGED <<marketWorkers, threads>>
       ELSE LET stopped ==
                    MarketWorker_stop(marketWorkers, threads,
                        Append(calls, Call("removeWorker", itemId, 0, "removing")), w)
            IN  /\ marketWorkers' = stopped.marketWorkers
                /\ threads' = stopped.threads
                /\ calls' = stopped.calls
    /\ UNCHANGED <<workers, isRunning, notPool>>

\* WorkerPool.removeWorker after await worker.stop(): this.workers.delete(itemId)
WorkerPool_removeWorker_delete(c) ==
    /\ calls[c].pc = "removing"
    /\ workers' = MapDelete(workers, calls[c].itemId)
    /\ calls' = [calls EXCEPT ![c].pc = "returned"]
    /\ UNCHANGED <<marketWorkers, threads, isRunning, notPool>>

\* Math.pow(base, exponent) for a natural exponent
RECURSIVE pow(_, _)
pow(base, exponent) == IF exponent = 0 THEN 1 ELSE base * pow(base, exponent - 1)

\* a delay that doubles without a cap
backoffMs_uncapped(crashCount) == pow(2, crashCount) * 100

\* backoffMs of handleCrash
backoffMs(crashCount) == Min(pow(2, crashCount) * 100, 10000)

\* MarketWorker.spawnWorker of MarketWorker w: new Worker, the handlers and
\* the initialize message; [marketWorkers, threads] after it
MarketWorker_spawnWorker(mws, ths, w) ==
    [marketWorkers |-> [mws EXCEPT ![w].worker = Len(ths) + 1],
     threads |-> Append(ths, postMessage(Worker(w),
                                         Message("initialize", mws[w].itemId, 0, <<>>)))]

\* handleCrash that counts the crash and ends the thread but sets no timer
handleCrash_unscheduled(mws, ths, w) ==
    IF ~mws[w].isRunning
    THEN [marketWorkers |-> mws, threads |-> ths]
    ELSE [marketWorkers |->
              [mws EXCEPT ![w].crashCount = @ + 1, ![w].worker = 0],
          threads |-> IF mws[w].worker # 0 THEN terminate(ths, mws[w].worker) ELSE ths]

\* MarketWorker.handleCrash of MarketWorker w: [marketWorkers, threads] after it
handleCrash(mws, ths, w) ==
    IF ~mws[w].isRunning
    THEN [marketWorkers |-> mws, threads |-> ths]
    ELSE [marketWorkers |->
              [mws EXCEPT ![w].crashCount = @ + 1,
                          ![w].restartTimeout = <<backoffMs(mws[w].crashCount + 1)>>,
                          ![w].worker = 0],
          threads |-> IF mws[w].worker # 0 THEN terminate(ths, mws[w].worker) ELSE ths]

\* this.worker.onerror of the MarketWorker that made thread t: the thread has
\* failed
Worker_onerror(t) ==
    /\ ~threads[t].terminated
    /\ LET crashed == handleCrash(marketWorkers, threads, threads[t].owner)
       IN  /\ marketWorkers' = crashed.marketWorkers
           /\ threads' = crashed.threads
    /\ UNCHANGED <<workers, calls, isRunning, notPool>>

\* the setTimeout callback of handleCrash of MarketWorker w; the thread is
\* made (spawned) or new Worker throws and the catch calls handleCrash
restartTimeout_callback(w, spawned) ==
    /\ marketWorkers[w].restartTimeout # <<>>
    /\ LET fired == [marketWorkers EXCEPT ![w].restartTimeout = <<>>]
           after == IF ~marketWorkers[w].isRunning
                    THEN [marketWorkers |-> fired, threads |-> threads]
                    ELSE IF spawned
                         THEN MarketWorker_spawnWorker(fired, threads, w)
                         ELSE handleCrash(fired, threads, w)
       IN  /\ marketWorkers' = after.marketWorkers
           /\ threads' = after.threads
    /\ UNCHANGED <<workers, calls, isRunning, notPool>>

\* callers of the life cycle of one market and the event loop
spawnMarket == WorkerPool_spawnWorker(WorkerItem)

\* the first market of a pool is added
spawnFirst == marketWorkers = <<>> /\ WorkerPool_spawnWorker(WorkerItem)

submitToMarket == route("submitOrder", "submit-order", WorkerItem, WorkerItem, 1)

removeMarket == WorkerPool_removeWorker(WorkerItem)

stopReturns == \E c \in 1..Len(calls) : WorkerPool_stop_clear(c)

removeReturns == \E c \in 1..Len(calls) : WorkerPool_removeWorker_delete(c)

\* the failures of threads and of new Worker that the MarketWorkers have
\* counted
RECURSIVE crashes(_)
crashes(mws) ==
    IF mws = <<>> THEN 0 ELSE Head(mws).crashCount + crashes(Tail(mws))

\* a thread fails, while fewer than bound failures have been counted
crash(bound) ==
    \E t \in 1..Len(threads) : crashes(marketWorkers) < bound /\ Worker_onerror(t)

\* the restart timer of a MarketWorker fires
restartFires(bound) ==
    \E w \in 1..Len(marketWorkers) : \E spawned \in BOOLEAN :
        /\ spawned \/ crashes(marketWorkers) < bound
        /\ restartTimeout_callback(w, spawned)

\* new MarketWorker(WorkerItem, initialPrice) by a caller that owns the object
MarketWorker_new ==
    /\ marketWorkers = <<>>
    /\ marketWorkers' = <<MarketWorker(WorkerItem)>>
    /\ UNCHANGED <<workers, threads, calls, isRunning, notPool>>

\* MarketWorker.start of MarketWorker w up to its await: the check of
\* isRunning and the whole of spawnWorker
MarketWorker_start_called(w) ==
    /\ Len(calls) < MaxCalls
    /\ IF marketWorkers[w].isRunning
       THEN /\ calls' = Append(calls, [Call("start", marketWorkers[w].itemId, 0,
                                            "returned") EXCEPT !.worker = w])
            /\ UNCHANGED <<marketWorkers, threads>>
       ELSE LET spawned == MarketWorker_spawnWorker(marketWorkers, threads, w)
            IN  /\ marketWorkers' = spawned.marketWorkers
                /\ threads' = spawned.threads
                /\ calls' = Append(calls, [Call("start", marketWorkers[w].itemId, 0,
                                                "start") EXCEPT !.worker = w])
    /\ UNCHANGED <<workers, isRunning, notPool>>

startCalled == \E w \in 1..Len(marketWorkers) : MarketWorker_start_called(w)

\* one MarketWorker is started, again and again, while its threads fail and
\* are restarted
NextMarketWorker ==
    \/ MarketWorker_new \/ startCalled \/ started
    \/ threadRuns
    \/ crash(MaxCrashes) \/ restartFires(MaxCrashes)

\* the pool is started and stopped while markets are added and removed
NextLifecycle ==
    \/ spawnMarket \/ started \/ registered
    \/ WorkerPool_start \/ WorkerPool_stop \/ stopReturns
    \/ removeMarket \/ removeReturns
    \/ threadRuns \/ responseArrives

\* orders are sent to a market whose threads fail and are restarted, and
\* which is stopped by removeWorker
NextCrash ==
    \/ spawnFirst \/ started \/ registered
    \/ removeMarket \/ removeReturns
    \/ submitToMarket
    \/ threadRuns \/ responseArrives \/ timerFires
    \/ crash(MaxCrashes) \/ restartFires(MaxCrashes)

\* the threads of one market fail again and again
NextBackoff ==
    \/ spawnFirst \/ started \/ registered
    \/ threadRuns \/ responseArrives
    \/ crash(MaxBackoffCrashes) \/ restartFires(MaxBackoffCrashes)

\* ---- MarketEngine (market-engine.ts) -----------------------------------------
\* A number of the engine is [kind, value]: a finite number, in hundredths where
\* it is a price, or one of the values Infinity, -Infinity and NaN of a double.
\* The doubles of the model are narrow: a result above MaxEnginePrice is
\* Infinity, Math.exp is 0 below -MaxExponent and Infinity above MaxExponent.
notEngine == <<bookVars, sessionVars, workerVars, poolVars, managerVars>>

Finite(n) == [kind |-> "finite", value |-> n]

Infinity == [kind |-> "Infinity", value |-> 0]

NegativeInfinity == [kind |-> "-Infinity", value |-> 0]

NaN == [kind |-> "NaN", value |-> 0]

\* the double nearest to the integer n
round(n) ==
    IF n > MaxEnginePrice THEN Infinity
    ELSE IF n < -MaxEnginePrice THEN NegativeInfinity
    ELSE Finite(n)

\* a finite factor num / den
Ratio(num, den) == [kind |-> "finite", num |-> num, den |-> den]

\* Math.exp(x) of a finite x, to the base 2
exp(x) ==
    IF x > MaxExponent THEN [kind |-> "Infinity", num |-> 0, den |-> 1]
    ELSE IF x < -MaxExponent THEN Ratio(0, 1)
    ELSE IF x >= 0 THEN Ratio(2^x, 1)
    ELSE Ratio(1, 2^(-x))

\* Math.sqrt(x) of a square x
sqrt(x) == CHOOSE r \in 0..x : r * r = x

\* x * factor of doubles
multiply(x, factor) ==
    IF x.kind = "NaN" THEN NaN
    ELSE IF factor.kind = "Infinity"
    THEN IF x.kind = "finite"
         THEN IF x.value > 0 THEN Infinity
              ELSE IF x.value = 0 THEN NaN ELSE NegativeInfinity
         ELSE x
    ELSE IF x.kind = "finite"
         THEN round((x.value * factor.num) \div factor.den)
         ELSE IF factor.num = 0 THEN NaN
              ELSE IF factor.num > 0 THEN x
              ELSE IF x.kind = "Infinity" THEN NegativeInfinity ELSE Infinity

\* Math.max(a, b) of integers
Max(a, b) == IF a >= b THEN a ELSE b

\* Math.max(x, y) of a double x and a finite y: NaN if x is NaN
Math_max(x, y) ==
    IF x.kind \in {"NaN", "Infinity"} THEN x
    ELSE IF x.kind = "finite" /\ x.value >= y THEN x
    ELSE Finite(y)

\* the values of the configuration and of the draws of the model
Drift == (-MaxDrift)..MaxDrift

Volatility == {0, 2}

TimeStep == {0, 1, 4}

Epsilon == {-1, 0, 1}

\* new MarketEngine(itemId, initialPrice, config): baseAdjustment 0.01,
\* pressureFactor 1.0; orderTimestamps is the number of its entries
MarketEngine(initialPrice, drift, volatility, dt) ==
    [currentPrice |-> Finite(initialPrice),
     config |-> [drift |-> drift, volatility |-> volatility, dt |-> dt],
     buyVolume |-> 0, sellVolume |-> 0, orderTimestamps |-> 0]

\* an engine that stands still, where the engine is not what is looked at
InitStillEngine ==
    /\ engine = MarketEngine(1, 0, 0, 0)
    /\ engineCall = "constructor"

\* an engine with any starting price and any configuration
InitMarketEngine ==
    /\ \E initialPrice \in 1..MaxEnginePrice :
       \E drift \in Drift : \E volatility \in Volatility : \E dt \in TimeStep :
          engine = MarketEngine(initialPrice, drift, volatility, dt)
    /\ engineCall = "constructor"

\* calculateOrderFlowPressure: [pressure, engine], the pressure num / den and
\* the engine after it; the filter keeps kept of the timestamps
calculateOrderFlowPressure(e, kept) ==
    IF e.orderTimestamps = 0
    THEN [pressure |-> Ratio(0, 1), engine |-> e]
    ELSE LET totalVolume == e.buyVolume + e.sellVolume
             after == [e EXCEPT !.orderTimestamps = kept,
                                !.buyVolume = 0, !.sellVolume = 0]
         IN  IF totalVolume = 0
             THEN [pressure |-> Ratio(0, 1), engine |-> after]
             ELSE [pressure |-> Ratio(e.buyVolume - e.sellVolume, totalVolume),
                   engine |-> after]

\* MarketEngine.updatePrice with the normal draw epsilon; the floor 0.01 is 1
\* hundredth
updatePrice(epsilon, kept) ==
    LET mu == engine.config.drift
        sigma == engine.config.volatility
        dt == engine.config.dt
        flow == calculateOrderFlowPressure(engine, kept)
        driftTerm == (mu - (sigma * sigma) \div 2) * dt
        diffusionTerm == sigma * epsilon * sqrt(dt)
        logReturn == driftTerm + diffusionTerm
        gbmPrice == multiply(engine.currentPrice, exp(logReturn))
        \* 1 + baseAdjustment * pressureFactor * pressure, with 0.01 * 1.0
        adjustment == Ratio(100 * flow.pressure.den + flow.pressure.num,
                            100 * flow.pressure.den)
        adjustedPrice == multiply(gbmPrice, adjustment)
    IN  /\ engine' = [flow.engine EXCEPT !.currentPrice = Math_max(adjustedPrice, 1)]
        /\ engineCall' = "updatePrice"
        /\ UNCHANGED notEngine

\* MarketEngine.recordOrder
recordOrder(side, volume) ==
    /\ engine.orderTimestamps < MaxRecorded
    /\ engine' = [engine EXCEPT
                     !.orderTimestamps = @ + 1,
                     !.buyVolume = IF side = "buy" THEN @ + volume ELSE @,
                     !.sellVolume = IF side = "sell" THEN @ + volume ELSE @]
    /\ engineCall' = "recordOrder"
    /\ UNCHANGED notEngine

\* MarketEngine.setDrift
setDrift(drift) ==
    /\ engine' = [engine EXCEPT !.config.drift = drift]
    /\ engineCall' = "setDrift"
    /\ UNCHANGED notEngine

\* MarketEngine.setVolatility
setVolatility(volatility) ==
    /\ engine' = [engine EXCEPT !.config.volatility = Max(volatility, 0)]
    /\ engineCall' = "setVolatility"
    /\ UNCHANGED notEngine

\* MarketEngine.setTimeStep
setTimeStep(dt) ==
    /\ engine' = [engine EXCEPT !.config.dt = Max(dt, 0)]
    /\ engineCall' = "setTimeStep"
    /\ UNCHANGED notEngine

\* callers of the engine
tick ==
    \E epsilon \in Epsilon : \E kept \in 0..engine.orderTimestamps :
        updatePrice(epsilon, kept)

orderRecorded ==
    \E side \in OrderSide : \E volume \in 1..MaxVolume : recordOrder(side, volume)

driftSet == \E drift \in Drift : setDrift(drift)

volatilitySet == \E volatility \in Volatility \cup {-2} : setVolatility(volatility)

timeStepSet == \E dt \in TimeStep \cup {-1} : setTimeStep(dt)

NextMarketEngine == tick \/ orderRecorded \/ driftSet \/ volatilitySet \/ timeStepSet

\* ---- WorkerManager (worker-manager.ts) ---------------------------------------
\* worker-manager.ts holds two WorkerManager classes. The second (453-935) is
\* the one the tests run: a BoundedQueue, a MarketUpdateSubscriber, runWorker
\* loops and a setInterval tick. The first (1-452) keeps the tasks in a bounded
\* Queue of the Effect runtime and takes them in fibers. An async method is
\* split at each await. Date.now() is not modelled: the timestamp of a task or
\* an update and the fields uptime and lastTickTime of the stats are left out.
notManager == <<bookVars, sessionVars, workerVars, poolVars, engineVars>>

\* the items of the tests (worker-manager.test.ts: 'item-1', 'item-2')
ManagerItemId == {"item-1", "item-2"}

ManagerOrderId == {"order-1"}

OrderTask(order) == [type |-> "process-order", order |-> order]

MarketTickTask(itemId) == [type |-> "market-tick", itemId |-> itemId]

\* a MarketUpdate; the prices come from the price provider and play no part in
\* where the update goes
MarketUpdate(itemId) == [itemId |-> itemId]

\* what a caller of the manager holds: the promise of the call
ManagerCall(method, argument, settled, value) ==
    [method |-> method, argument |-> argument, settled |-> settled,
     value |-> value]

\* new BoundedQueue(capacity); a resolver that is null is 0
BoundedQueue(capacity) ==
    [queue |-> <<>>, capacity |-> capacity, notFull |-> 0, notEmpty |-> 0,
     size |-> 0]

\* BoundedQueue.offer(item), with the runners rs: notify() resolves the promise
\* that the runner notEmpty awaits in take()
BoundedQueue_offer(q, rs, item) ==
    IF q.size >= q.capacity
    THEN [orderQueue |-> q, runners |-> rs, thrown |-> "Queue is at capacity"]
    ELSE [orderQueue |-> [q EXCEPT !.queue = Append(@, item),
                                   !.size = @ + 1,
                                   !.notEmpty = 0],
          runners |-> IF q.notEmpty = 0 THEN rs
                      ELSE [rs EXCEPT ![q.notEmpty].pc = "woken"],
          thrown |-> ""]

\* BoundedQueue.take() of runner r from the test of its while loop: to the
\* await of a new promise, whose resolver replaces notEmpty, or to the return
\* of the first item (notFull is never set: nothing to notify)
BoundedQueue_take(q, rs, r) ==
    IF q.size = 0
    THEN [orderQueue |-> [q EXCEPT !.notEmpty = r],
          runners |-> [rs EXCEPT ![r].pc = "waiting", ![r].task = <<>>]]
    ELSE [orderQueue |-> [q EXCEPT !.queue = Tail(@), !.size = @ - 1],
          runners |-> [rs EXCEPT ![r].pc = "taken", ![r].task = Head(q.queue)]]

\* new MarketUpdateSubscriber(); pendingResolvers maps an id to the call of
\* subscribeToMarket whose promise the resolver settles. handlers stays empty:
\* nothing in the manager calls subscribe()
MarketUpdateSubscriber ==
    [updates |-> <<>>, handlers |-> {}, pendingResolvers |-> <<>>,
     pendingIdCounter |-> 0]

Values(map) == {map[k] : k \in DOMAIN map}

\* MarketUpdateSubscriber.publish(update), with the calls callSeq
publish(mu, callSeq, update) ==
    IF update.itemId = "item-1"
    THEN [marketUpdates |-> [mu EXCEPT !.updates = Append(@, update),
                                       !.pendingResolvers = <<>>],
          managerCalls |->
              [c \in DOMAIN callSeq |->
                  IF c \in Values(mu.pendingResolvers)
                  THEN [callSeq[c] EXCEPT !.settled = "resolved",
                                          !.value = update]
                  ELSE callSeq[c]]]
    ELSE [marketUpdates |-> [mu EXCEPT !.updates = Append(@, update)],
          managerCalls |-> callSeq]

\* MarketUpdateSubscriber.waitForItem(itemId) of the call c
waitForItem(mu, itemId, c) ==
    [mu EXCEPT !.pendingResolvers = MapSet(@, mu.pendingIdCounter, c),
               !.pendingIdCounter = @ + 1]

\* new WorkerManager({queueCapacity, workerPoolSize}); a provider or a
\* processor is set or not
WorkerManager(queueCapacity, workerPoolSize) ==
    [config |-> [queueCapacity |-> queueCapacity,
                 workerPoolSize |-> workerPoolSize,
                 maxRetries |-> MaxRetries],
     stats |-> [ordersProcessed |-> 0, tradesMatched |-> 0,
                marketUpdatesBroadcast |-> 0, workersActive |-> 0,
                workersRestarted |-> 0],
     workerAbortControllers |-> <<>>,
     orderProcessor |-> FALSE, priceProvider |-> FALSE,
     tickInterval |-> FALSE, isRunning |-> FALSE]

InitWorkerManager ==
    /\ manager = WorkerManager(QueueCapacity, WorkerPoolSize)
    /\ orderQueue = BoundedQueue(manager.config.queueCapacity)
    /\ marketUpdates = MarketUpdateSubscriber
    /\ runners = <<>>
    /\ broadcasts = 0
    /\ managerCalls = <<>>

\* runWorker of runner r from the test of its while loop to the await of take()
runWorker(m, q, rs, r) ==
    IF ~rs[r].aborted /\ m.isRunning
    THEN BoundedQueue_take(q, rs, r)
    ELSE [orderQueue |-> q,
          runners |-> [rs EXCEPT ![r].pc = "done", ![r].task = <<>>]]

\* spawnWorker(workerId): a new AbortController in the map, one more active
\* worker, and runWorker up to its first await
spawnWorker(m, q, rs, workerId) ==
    LET r == Len(rs) + 1
        ran == runWorker(m, q,
                   Append(rs, [workerId |-> workerId, aborted |-> FALSE,
                               pc |-> "spawned", task |-> <<>>,
                               attempt |-> 0]), r)
    IN [manager |-> [m EXCEPT !.workerAbortControllers = MapSet(@, workerId, r),
                              !.stats.workersActive = @ + 1],
        orderQueue |-> ran.orderQueue,
        runners |-> ran.runners]

\* the for loop of start() from worker i
RECURSIVE spawnEach(_, _, _, _)
spawnEach(m, q, rs, i) ==
    IF i >= m.config.workerPoolSize
    THEN [manager |-> m, orderQueue |-> q, runners |-> rs]
    ELSE LET s == spawnWorker(m, q, rs, i)
         IN spawnEach(s.manager, s.orderQueue, s.runners, i + 1)

\* start(); a manager that is running warns and returns
WorkerManager_start ==
    /\ ~manager.isRunning
    /\ Len(runners) + manager.config.workerPoolSize <= MaxRunners
    /\ LET s == spawnEach([manager EXCEPT !.isRunning = TRUE], orderQueue,
                          runners, 0)
       IN /\ manager' = [s.manager EXCEPT !.tickInterval = TRUE]
          /\ orderQueue' = s.orderQueue
          /\ runners' = s.runners
    /\ UNCHANGED <<marketUpdates, broadcasts, managerCalls, notManager>>

\* take() of runner r after the promise it awaited has been resolved
take_resumes(r) ==
    /\ runners[r].pc = "woken"
    /\ LET t == BoundedQueue_take(orderQueue, runners, r)
       IN orderQueue' = t.orderQueue /\ runners' = t.runners
    /\ UNCHANGED <<manager, marketUpdates, broadcasts, managerCalls, notManager>>

\* runWorker of runner r after take() has returned a task: break if aborted,
\* else to the await of the processor (attempt = 0 of processOrderWithRetry,
\* whose loop is not entered when maxRetries is 0) or of the provider; without
\* one the task is skipped and the loop goes on
runWorker_resumes(r) ==
    /\ runners[r].pc = "taken"
    /\ LET awaits == IF runners[r].task.type = "process-order"
                     THEN IF manager.orderProcessor /\ 0 < manager.config.maxRetries
                          THEN "processor" ELSE ""
                     ELSE IF manager.priceProvider THEN "provider" ELSE ""
           again == runWorker(manager, orderQueue, runners, r)
       IN IF runners[r].aborted
          THEN /\ runners' = [runners EXCEPT ![r].pc = "done"]
               /\ UNCHANGED orderQueue
          ELSE IF awaits # ""
          THEN /\ runners' = [runners EXCEPT ![r].pc = awaits, ![r].attempt = 0]
               /\ UNCHANGED orderQueue
          ELSE /\ runners' = again.runners
               /\ orderQueue' = again.orderQueue
    /\ UNCHANGED <<manager, marketUpdates, broadcasts, managerCalls, notManager>>

\* processOrderWithRetry after the processor of createOrderProcessor has
\* returned no trades, and runWorker to its next await
processOrderWithRetry(r) ==
    /\ runners[r].pc = "processor"
    /\ manager' = [manager EXCEPT !.stats.ordersProcessed = @ + 1]
    /\ LET again == runWorker(manager, orderQueue, runners, r)
       IN runners' = again.runners /\ orderQueue' = again.orderQueue
    /\ UNCHANGED <<marketUpdates, broadcasts, managerCalls, notManager>>

\* the catch of processOrderWithRetry after the processor has thrown: one more
\* attempt is counted; at maxRetries the error is thrown again, to the catch
\* of runWorker, which leaves the loop; else the retry delay is awaited
processOrderWithRetry_catch(r) ==
    /\ runners[r].pc = "processor"
    /\ runners' = [runners EXCEPT
                      ![r].attempt = @ + 1,
                      ![r].pc = IF runners[r].attempt + 1 >= manager.config.maxRetries
                                THEN "done" ELSE "retry"]
    /\ UNCHANGED <<manager, orderQueue, marketUpdates, broadcasts, managerCalls,
                   notManager>>

\* processOrderWithRetry after the retry delay: the while loop calls the
\* processor again, or returns when the processor has been unset
processOrderWithRetry_retries(r) ==
    /\ runners[r].pc = "retry"
    /\ LET again == runWorker(manager, orderQueue, runners, r)
       IN IF manager.orderProcessor
          THEN /\ runners' = [runners EXCEPT ![r].pc = "processor"]
               /\ UNCHANGED orderQueue
          ELSE /\ runners' = again.runners
               /\ orderQueue' = again.orderQueue
    /\ UNCHANGED <<manager, marketUpdates, broadcasts, managerCalls, notManager>>

\* processMarketTick after the provider has returned the prices: the update of
\* the task's item is published, and runWorker goes on to its next await
processMarketTick(r) ==
    /\ runners[r].pc = "provider"
    /\ LET published == publish(marketUpdates, managerCalls,
                                MarketUpdate(runners[r].task.itemId))
           again == runWorker(manager, orderQueue, runners, r)
       IN /\ marketUpdates' = published.marketUpdates
          /\ managerCalls' = published.managerCalls
          /\ runners' = again.runners
          /\ orderQueue' = again.orderQueue
    /\ UNCHANGED <<manager, broadcasts, notManager>>

\* the callback of setInterval in startGameTickLoop, to the await of the price
\* provider in broadcastMarketUpdates; without a provider it returns
tickInterval_callback ==
    /\ manager.tickInterval
    /\ manager.isRunning
    /\ manager.priceProvider
    /\ manager.stats.marketUpdatesBroadcast + broadcasts < MaxBroadcasts
    /\ broadcasts' = broadcasts + 1
    /\ UNCHANGED <<manager, orderQueue, marketUpdates, runners, managerCalls,
                   notManager>>

\* broadcastMarketUpdates after the provider has returned the prices
broadcastMarketUpdates ==
    /\ broadcasts > 0
    /\ LET published == publish(marketUpdates, managerCalls,
                                MarketUpdate("item-1"))
       IN /\ marketUpdates' = published.marketUpdates
          /\ managerCalls' = published.managerCalls
    /\ manager' = [manager EXCEPT !.stats.marketUpdatesBroadcast = @ + 1]
    /\ broadcasts' = broadcasts - 1
    /\ UNCHANGED <<orderQueue, runners, notManager>>

\* the runners whose AbortController is in the map are aborted
abort(rs, controllers) ==
    [r \in DOMAIN rs |->
        IF r \in controllers THEN [rs[r] EXCEPT !.aborted = TRUE] ELSE rs[r]]

\* gracefulShutdown(); a manager that is not running returns
gracefulShutdown ==
    /\ manager.isRunning
    /\ runners' = abort(runners, Values(manager.workerAbortControllers))
    /\ manager' = [manager EXCEPT !.isRunning = FALSE,
                                  !.workerAbortControllers = <<>>,
                                  !.tickInterval = FALSE,
                                  !.stats.workersActive = 0]
    /\ UNCHANGED <<orderQueue, marketUpdates, broadcasts, managerCalls,
                   notManager>>

\* restartWorker(workerId)
restartWorker(workerId) ==
    /\ Len(runners) < MaxRunners
    /\ LET controllers == manager.workerAbortControllers
           aborted == IF workerId \in DOMAIN controllers
                      THEN abort(runners, {controllers[workerId]})
                      ELSE runners
           s == spawnWorker([manager EXCEPT !.stats.workersRestarted = @ + 1],
                            orderQueue, aborted, workerId)
       IN /\ manager' = s.manager
          /\ orderQueue' = s.orderQueue
          /\ runners' = s.runners
    /\ UNCHANGED <<marketUpdates, broadcasts, managerCalls, notManager>>

\* setOrderProcessor(createOrderProcessor(orderBook))
setOrderProcessor ==
    /\ ~manager.orderProcessor
    /\ manager' = [manager EXCEPT !.orderProcessor = TRUE]
    /\ UNCHANGED <<orderQueue, marketUpdates, runners, broadcasts, managerCalls,
                   notManager>>

\* setPriceProvider(createPriceProvider(engine))
setPriceProvider ==
    /\ ~manager.priceProvider
    /\ manager' = [manager EXCEPT !.priceProvider = TRUE]
    /\ UNCHANGED <<orderQueue, marketUpdates, runners, broadcasts, managerCalls,
                   notManager>>

\* the body of enqueueOrder and of enqueueMarketTick: the task is offered; an
\* error that offer throws rejects the promise of the async method
enqueue(method, task) ==
    /\ Len(managerCalls) < MaxManagerCalls
    /\ LET offered == BoundedQueue_offer(orderQueue, runners, task)
       IN /\ orderQueue' = offered.orderQueue
          /\ runners' = offered.runners
          /\ managerCalls' =
                 Append(managerCalls,
                        IF offered.thrown = ""
                        THEN ManagerCall(method, task, "resolved", <<>>)
                        ELSE ManagerCall(method, task, "rejected",
                                         offered.thrown))
    /\ UNCHANGED <<manager, marketUpdates, broadcasts, notManager>>

enqueueOrder(order) == enqueue("enqueueOrder", OrderTask(order))

enqueueMarketTick(itemId) == enqueue("enqueueMarketTick", MarketTickTask(itemId))

\* subscribeToMarket(itemId): the promise of waitForItem
subscribeToMarket(itemId) ==
    /\ Len(managerCalls) < MaxManagerCalls
    /\ managerCalls' = Append(managerCalls,
                              ManagerCall("subscribeToMarket", itemId,
                                          "pending", <<>>))
    /\ marketUpdates' = waitForItem(marketUpdates, itemId, Len(managerCalls) + 1)
    /\ UNCHANGED <<manager, orderQueue, runners, broadcasts, notManager>>

\* the callers and the event loop of the manager
orderEnqueued == \E order \in ManagerOrderId : enqueueOrder(order)

marketTickEnqueued == \E itemId \in ManagerItemId : enqueueMarketTick(itemId)

subscribed == \E itemId \in ManagerItemId : subscribeToMarket(itemId)

workerRestarted ==
    \E workerId \in 0..(manager.config.workerPoolSize - 1) :
        restartWorker(workerId)

runnerTakes == \E r \in 1..Len(runners) : take_resumes(r)

runnerResumes == \E r \in 1..Len(runners) : runWorker_resumes(r)

orderProcessed == \E r \in 1..Len(runners) : processOrderWithRetry(r)

marketTickProcessed == \E r \in 1..Len(runners) : processMarketTick(r)

\* the task queue and its runners: a manager with an order processor
NextWorkerManager ==
    \/ setOrderProcessor
    \/ WorkerManager_start \/ gracefulShutdown \/ workerRestarted
    \/ orderEnqueued \/ marketTickEnqueued
    \/ runnerTakes \/ runnerResumes \/ orderProcessed

processorThrows == \E r \in 1..Len(runners) : processOrderWithRetry_catch(r)

retryDelayOver == \E r \in 1..Len(runners) : processOrderWithRetry_retries(r)

\* the order tasks of a manager whose processor may fail
NextRetry ==
    \/ setOrderProcessor
    \/ WorkerManager_start \/ gracefulShutdown
    \/ orderEnqueued
    \/ runnerTakes \/ runnerResumes \/ orderProcessed
    \/ processorThrows \/ retryDelayOver

\* the market updates: a manager with a price provider, its tick and the
\* market-tick tasks
NextMarketUpdates ==
    \/ setPriceProvider
    \/ WorkerManager_start \/ gracefulShutdown
    \/ marketTickEnqueued \/ subscribed
    \/ runnerTakes \/ runnerResumes \/ marketTickProcessed
    \/ tickInterval_callback \/ broadcastMarketUpdates

\* ---- WorkerManager on the Effect runtime (worker-manager.ts, 1-452) ---------
\* Queue.bounded(capacity) of Effect: a bounded queue with back-pressure. An
\* offer to a full queue suspends its fiber until there is room, a take from an
\* empty queue suspends until there is an item. putters are the suspended
\* offers, in order: [call, item]; takers are the suspended fibers, in order.
Queue_bounded(capacity) ==
    [queue |-> <<>>, capacity |-> capacity, putters |-> <<>>, takers |-> <<>>]

\* Queue.offer(queue, item) run by Effect.runPromise for the call c: the item
\* goes to the first suspended taker, or into the queue, or the offer suspends
Queue_offer(q, rs, item, c) ==
    IF q.takers # <<>>
    THEN [orderQueue |-> [q EXCEPT !.takers = Tail(@)],
          runners |-> [rs EXCEPT ![Head(q.takers)].pc = "taken",
                                 ![Head(q.takers)].task = item],
          suspended |-> FALSE]
    ELSE IF Len(q.queue) < q.capacity
    THEN [orderQueue |-> [q EXCEPT !.queue = Append(@, item)],
          runners |-> rs, suspended |-> FALSE]
    ELSE [orderQueue |-> [q EXCEPT !.putters =
                                       Append(@, [call |-> c, item |-> item])],
          runners |-> rs, suspended |-> TRUE]

\* Queue.take(queue) of fiber r: the first item, and the first suspended offer
\* moves its item into the room and resumes; or the fiber suspends
Queue_take(q, rs, callSeq, r) ==
    IF q.queue = <<>>
    THEN [orderQueue |-> [q EXCEPT !.takers = Append(@, r)],
          runners |-> [rs EXCEPT ![r].pc = "taking"],
          managerCalls |-> callSeq]
    ELSE IF q.putters = <<>>
    THEN [orderQueue |-> [q EXCEPT !.queue = Tail(@)],
          runners |-> [rs EXCEPT ![r].pc = "taken", ![r].task = Head(q.queue)],
          managerCalls |-> callSeq]
    ELSE [orderQueue |-> [q EXCEPT !.queue = Append(Tail(@), Head(q.putters).item),
                                   !.putters = Tail(@)],
          runners |-> [rs EXCEPT ![r].pc = "taken", ![r].task = Head(q.queue)],
          managerCalls |-> [callSeq EXCEPT ![Head(q.putters).call].settled =
                                               "resolved"]]

\* new WorkerManager({queueCapacity, workerPoolSize}) of the Effect class;
\* marketUpdates is a PubSub that nothing subscribes to before the Effect that
\* subscribeToMarket returns is run
Effect_WorkerManager(queueCapacity, workerPoolSize) ==
    [config |-> [queueCapacity |-> queueCapacity,
                 workerPoolSize |-> workerPoolSize],
     stats |-> [ordersProcessed |-> 0, tradesMatched |-> 0,
                marketUpdatesBroadcast |-> 0, workersActive |-> 0,
                workersRestarted |-> 0],
     workerFibers |-> {},
     orderProcessor |-> FALSE, priceProvider |-> FALSE,
     tickFiber |-> FALSE, isRunning |-> FALSE]

InitEffectWorkerManager ==
    /\ manager = Effect_WorkerManager(QueueCapacity, WorkerPoolSize)
    /\ orderQueue = Queue_bounded(manager.config.queueCapacity)
    /\ marketUpdates = [capacity |-> manager.config.queueCapacity]
    /\ runners = <<>>
    /\ broadcasts = 0
    /\ managerCalls = <<>>

\* start(scope): a forked fiber of processOrderQueue for each worker, and the
\* fiber of the tick loop; a manager that is running warns and returns
Effect_start ==
    /\ ~manager.isRunning
    /\ Len(runners) + manager.config.workerPoolSize <= MaxRunners
    /\ LET forked == [i \in 1..manager.config.workerPoolSize |->
                         [workerId |-> i - 1, pc |-> "forked", task |-> <<>>]]
       IN /\ runners' = runners \o forked
          /\ manager' =
                 [manager EXCEPT
                     !.isRunning = TRUE,
                     !.tickFiber = TRUE,
                     !.workerFibers =
                         @ \cup (Len(runners) + 1)..Len(runners \o forked),
                     !.stats.workersActive = @ + Len(forked)]
    /\ UNCHANGED <<orderQueue, marketUpdates, broadcasts, managerCalls,
                   notManager>>

\* processOrderQueue of fiber r at Queue.take: at its start, or after a task
\* has been processed (processOrder counts the order if a processor is set,
\* processMarketTick publishes to the PubSub)
processOrderQueue(r) ==
    /\ runners[r].pc \in {"forked", "taken"}
    /\ LET counted == runners[r].pc = "taken"
                      /\ runners[r].task.type = "process-order"
                      /\ manager.orderProcessor
           t == Queue_take(orderQueue, [runners EXCEPT ![r].task = <<>>],
                           managerCalls, r)
       IN /\ manager' = IF counted
                        THEN [manager EXCEPT !.stats.ordersProcessed = @ + 1]
                        ELSE manager
          /\ orderQueue' = t.orderQueue
          /\ runners' = t.runners
          /\ managerCalls' = t.managerCalls
    /\ UNCHANGED <<marketUpdates, broadcasts, notManager>>

\* gracefulShutdown(): every fiber of the set is interrupted; a manager that is
\* not running returns
Effect_gracefulShutdown ==
    /\ manager.isRunning
    /\ runners' = [r \in DOMAIN runners |->
                      IF r \in manager.workerFibers
                      THEN [runners[r] EXCEPT !.pc = "interrupted"]
                      ELSE runners[r]]
    /\ orderQueue' = [orderQueue EXCEPT
                         !.takers = SelectSeq(@, LAMBDA r :
                                        r \notin manager.workerFibers)]
    /\ manager' = [manager EXCEPT !.isRunning = FALSE,
                                  !.workerFibers = {},
                                  !.tickFiber = FALSE,
                                  !.stats.workersActive = 0]
    /\ UNCHANGED <<marketUpdates, broadcasts, managerCalls, notManager>>

\* a round of the tick fiber: broadcastMarketUpdates publishes the update of
\* 'item-1' to the PubSub and counts it; without a provider it logs
Effect_gameTickLoop ==
    /\ manager.tickFiber
    /\ manager.priceProvider
    /\ manager.stats.marketUpdatesBroadcast < MaxBroadcasts
    /\ manager' = [manager EXCEPT !.stats.marketUpdatesBroadcast = @ + 1]
    /\ UNCHANGED <<orderQueue, marketUpdates, runners, broadcasts, managerCalls,
                   notManager>>

\* the body of enqueueOrder and of enqueueMarketTick: the promise resolves
\* when the offer completes
Effect_enqueue(method, task) ==
    /\ Len(managerCalls) < MaxManagerCalls
    /\ LET c == Len(managerCalls) + 1
           offered == Queue_offer(orderQueue, runners, task, c)
       IN /\ orderQueue' = offered.orderQueue
          /\ runners' = offered.runners
          /\ managerCalls' =
                 Append(managerCalls,
                        ManagerCall(method, task,
                                    IF offered.suspended THEN "pending"
                                    ELSE "resolved", <<>>))
    /\ UNCHANGED <<manager, marketUpdates, broadcasts, notManager>>

Effect_enqueueOrder(order) == Effect_enqueue("enqueueOrder", OrderTask(order))

Effect_enqueueMarketTick(itemId) ==
    Effect_enqueue("enqueueMarketTick", MarketTickTask(itemId))

\* the callers and the fibers of the Effect manager
Effect_orderEnqueued == \E order \in ManagerOrderId : Effect_enqueueOrder(order)

Effect_marketTickEnqueued ==
    \E itemId \in ManagerItemId : Effect_enqueueMarketTick(itemId)

fiberRuns == \E r \in 1..Len(runners) : processOrderQueue(r)

NextEffectWorkerManager ==
    \/ setOrderProcessor \/ setPriceProvider
    \/ Effect_start \/ Effect_gracefulShutdown
    \/ Effect_orderEnqueued \/ Effect_marketTickEnqueued
    \/ fiberRuns \/ Effect_gameTickLoop

\* ---- specifications -----------------------------------------------------
InitOthers ==
    /\ InitOrderBook
    /\ InitPlayerSession
    /\ InitWorkerThread
    /\ InitWorkerPool

Init == InitOthers /\ InitStillEngine /\ InitWorkerManager

InitAnyEngine == InitOthers /\ InitMarketEngine /\ InitWorkerManager

InitEffect == InitOthers /\ InitStillEngine /\ InitEffectWorkerManager

Spec == Init /\ [][Next]_vars

SpecDeep == Init /\ [][NextDeep]_vars

SpecAnyOrder == Init /\ [][NextAnyOrder]_vars

SpecPlayerSession == Init /\ [][NextPlayerSession]_vars

SpecPlayerSessionReset == Init /\ [][NextPlayerSessionReset]_vars

SpecWorker == Init /\ [][NextWorker]_vars

SpecPool == Init /\ [][NextPool]_vars

SpecLifecycle == Init /\ [][NextLifecycle]_vars

SpecCrash == Init /\ [][NextCrash]_vars

\* SpecCrash with an event loop that runs every timer of sendMessage that is
\* set
SpecCrashFair == SpecCrash /\ WF_vars(timerFires)

SpecBackoff == Init /\ [][NextBackoff]_vars

SpecMarketEngine == InitAnyEngine /\ [][NextMarketEngine]_vars

SpecWorkerRestart == Init /\ [][NextWorkerRestart]_vars

SpecMarketWorker == Init /\ [][NextMarketWorker]_vars

SpecRetry == Init /\ [][NextRetry]_vars

SpecBothBooks == Init /\ [][NextBothBooks]_vars

SpecMatchedBook == Init /\ [][NextMatchedBook]_vars

SpecWorkerManager == Init /\ [][NextWorkerManager]_vars

SpecMarketUpdates == Init /\ [][NextMarketUpdates]_vars

SpecEffectWorkerManager == InitEffect /\ [][NextEffectWorkerManager]_vars

\* ---- properties of the order book ------------------------------------------
Resting(heap) == {heap[i] : i \in 1..Len(heap)}

Book == Resting(bids) \cup Resting(asks)

Returned(op) == pc = "idle" /\ call.op = op

\* this step of matchOrders emits a trade
Emits == pc = "matching" /\ Len(trades') = Len(trades) + 1

\* this step is a call of removeOrder (one that changes nothing and returns
\* what the last call returned is a stuttering step)
Removes ==
    pc = "idle" /\ pc' = "idle" /\ created' = created /\ call'.op = "removeOrder"

\* a bid and an ask that the matching rule pairs
CrossingPair(b, a) ==
    \/ (b.type = "market") # (a.type = "market")
    \/ /\ b.type = "limit" /\ a.type = "limit"
       /\ b.price # <<>> /\ a.price # <<>>
       /\ b.price[1] >= a.price[1]

\* C1: once matchOrders has returned, no resting bid and resting ask form a
\* crossing pair (exactly one of them a market order, or two limit orders with
\* bid price >= ask price).
C1_NoCrossingPairAfterMatch ==
    Returned("matchOrders") =>
        \A b \in Resting(bids) : \A a \in Resting(asks) : ~CrossingPair(b, a)

\* root and o both carry a price: root is at least as good on price, and on
\* equal price at least as early
RootFirst(side, root, o) ==
    (root.price # <<>> /\ o.price # <<>>) =>
        /\ IF side = "buy" THEN root.price[1] >= o.price[1]
                           ELSE root.price[1] <= o.price[1]
        /\ root.price[1] = o.price[1] => root.timestamp <= o.timestamp

\* C2: in every state the root of the bid heap has the highest price of the
\* resting bids and the earliest timestamp at that price, and the root of the
\* ask heap the lowest price and the earliest timestamp at that price.
C2_RootHasBestPrice ==
    /\ \A i \in 2..Len(bids) : RootFirst("buy", bids[1], bids[i])
    /\ \A i \in 2..Len(asks) : RootFirst("sell", asks[1], asks[i])

\* C3: in every state each order in a heap is the object stored under its id
\* in the orders map, and each entry of the map is held exactly once, in the
\* heap of its side.
C3_HeapsAndIndexAgree ==
    /\ \A o \in Book : o.id \in DOMAIN orders /\ orders[o.id] = o.ref
    /\ \A id \in DOMAIN orders :
          Cardinality({i \in 1..Len(bids) :
                          bids[i].ref = orders[id] /\ bids[i].side = "buy"})
          + Cardinality({i \in 1..Len(asks) :
                          asks[i].ref = orders[id] /\ asks[i].side = "sell"}) = 1

\* C4: every order in the book has quantity > 0 and status pending or partial,
\* and the book holds no order that addOrder has to refuse: no limit order
\* without a price and no two orders with one id.
C4_BookHoldsValidOrders ==
    /\ \A o \in Book :
          /\ o.quantity > 0
          /\ o.status \in {"pending", "partial"}
          /\ o.type = "limit" => o.price # <<>>
    /\ \A o1 \in Book : \A o2 \in Book : o1.id = o2.id => o1.ref = o2.ref

\* C5: every trade is priced by the rule (market buy against limit ask: the
\* ask's price; market sell against limit bid: the bid's price; two limit
\* orders: the ask's price, and they trade iff bid price >= ask price), and
\* every trade has price > 0.
C5_TradePriceRule ==
    [][/\ Emits =>
            LET bestBid == bids[1]
                bestAsk == asks[1]
                trade == trades'[Len(trades')]
            IN  /\ (bestBid.type = "market" /\ bestAsk.type = "limit")
                       => trade.price = OrZero(bestAsk.price)
                /\ (bestAsk.type = "market" /\ bestBid.type = "limit")
                       => trade.price = OrZero(bestBid.price)
                /\ (bestBid.type = "limit" /\ bestAsk.type = "limit")
                       => /\ trade.price = OrZero(bestAsk.price)
                          /\ OrZero(bestBid.price) >= OrZero(bestAsk.price)
                /\ trade.price > 0
       /\ (pc = "matching" /\ pc' = "idle" /\ Len(bids) > 0 /\ Len(asks) > 0
           /\ bids[1].type = "limit" /\ asks[1].type = "limit")
            => OrZero(bids[1].price) < OrZero(asks[1].price)
      ]_vars

\* C6: when the best bid and the best ask are both market orders, matchOrders
\* stops: the step from there returns, emits no trade and leaves both heaps
\* as they are.
C6_MarketAgainstMarketStops ==
    [][(/\ pc = "matching" /\ Len(bids) > 0 /\ Len(asks) > 0
        /\ bids[1].type = "market" /\ asks[1].type = "market")
          => /\ pc' = "idle"
             /\ result' = trades
             /\ UNCHANGED <<bids, asks, orders, nextTradeId>>
      ]_vars

\* quantity of the object ref in a heap, 0 when the heap no longer holds it
Remaining(heap, ref) ==
    IF \E o \in Resting(heap) : o.ref = ref
    THEN (CHOOSE o \in Resting(heap) : o.ref = ref).quantity
    ELSE 0

\* C7: every trade has the quantity min(remaining of the best bid, remaining
\* of the best ask), that quantity is > 0, and both orders' remaining
\* quantities go down by exactly it.
C7_TradeQuantityIsMin ==
    [][Emits =>
          LET bestBid == bids[1]
              bestAsk == asks[1]
              trade == trades'[Len(trades')]
          IN  /\ trade.quantity = Min(bestBid.quantity, bestAsk.quantity)
              /\ trade.quantity > 0
              /\ Remaining(bids', bestBid.ref) = bestBid.quantity - trade.quantity
              /\ Remaining(asks', bestAsk.ref) = bestAsk.quantity - trade.quantity
      ]_vars

\* the effect of a trade of quantity q on the order o at the root of heap:
\* filled, o leaves the heap and its id the map; otherwise o stays at the root
\* with status partial, nothing else of it and nothing else in the heap
\* changed, and stays in the map if it was there
AfterTrade(heap, heapAfter, o, q) ==
    IF o.quantity - q = 0
    THEN /\ \A x \in Resting(heapAfter) : x.ref # o.ref
         /\ o.id \notin DOMAIN orders'
    ELSE /\ heapAfter = [heap EXCEPT ![1] = [o EXCEPT !.quantity = o.quantity - q,
                                                      !.status = "partial"]]
         /\ (o.id \in DOMAIN orders /\ orders[o.id] = o.ref)
               => (o.id \in DOMAIN orders' /\ orders'[o.id] = o.ref)

\* C8: after a trade a side that reached zero is gone from its heap and from
\* the map, and a side with quantity left stays in the book with status
\* partial and id, timestamp, price, side and heap position unchanged.
C8_FilledLeavesPartialStays ==
    [][Emits =>
          LET trade == trades'[Len(trades')]
          IN  /\ AfterTrade(bids, bids', bids[1], trade.quantity)
              /\ AfterTrade(asks, asks', asks[1], trade.quantity)
      ]_vars

\* C9: a resting market order is traded by matchOrders as soon as the other
\* side holds a limit order, whatever rests on its own side: once matchOrders
\* has returned, no market order rests opposite a limit order.
C9_MarketOrderTradesAgainstLiquidity ==
    Returned("matchOrders") =>
        /\ (\E m \in Resting(bids) : m.type = "market")
              => \A a \in Resting(asks) : a.type # "limit"
        /\ (\E m \in Resting(asks) : m.type = "market")
              => \A b \in Resting(bids) : b.type # "limit"

\* C10: removeOrder of an id that is not in the book returns false (the
\* worker answers 'Order not found') and changes nothing; on an id in the book
\* it returns true and takes the order out of heap and map; the same call
\* again returns false and changes nothing.
C10_RemoveIsIdempotent ==
    [][Removes =>
          LET id == call'.arg
              absent == id \notin DOMAIN orders /\ \A o \in Book : o.id # id
              noOp == /\ result' = FALSE
                      /\ cancelResponse(result') =
                            [type |-> "error", message |-> "Order not found"]
                      /\ UNCHANGED <<bids, asks, orders, nextTradeId>>
          IN  /\ absent => noOp
              /\ (call.op = "removeOrder" /\ call.arg = id) => noOp
              /\ (id \in DOMAIN orders /\ \E o \in Book : o.id = id)
                    => /\ result' = TRUE
                       /\ cancelResponse(result') = [type |-> "order-cancelled"]
                       /\ id \notin DOMAIN orders'
                       /\ \E o \in Book :
                             /\ o.id = id
                             /\ Resting(bids') \cup Resting(asks') = Book \ {o}
      ]_vars

\* removeOrder has answered false for an order that arrived and traded
C10_CancelAfterFill ==
    /\ Returned("removeOrder")
    /\ result = FALSE
    /\ call.arg <= created
    /\ nextTradeId > 0

\* ---- properties of the player session ---------------------------------------
\* C11: an updateBalance or updateInventory that would make the balance or
\* the item's quantity negative throws and leaves balance and inventory as
\* they were; any other one returns and applies the delta to the balance, or
\* to the quantity of that item, and to nothing else.
C11_FailedAdjustmentChangesNothing ==
    [][LET c == sessionCall'
           target == IF c.op = "updateBalance" THEN state.balance
                     ELSE getInventory(state.inventory, c.itemId)
       IN  c.op \in {"updateBalance", "updateInventory"} =>
             IF target + c.delta < 0
             THEN thrown' # <<>> /\ state' = state
             ELSE /\ thrown' = <<>>
                  /\ IF c.op = "updateBalance"
                     THEN /\ state'.balance = target + c.delta
                          /\ state'.inventory = state.inventory
                     ELSE /\ state'.balance = state.balance
                          /\ \A i \in ItemId :
                                getInventory(state'.inventory, i) =
                                   IF i = c.itemId THEN target + c.delta
                                   ELSE getInventory(state.inventory, i)
      ]_vars

\* an adjustment of the inventory has been refused on a session that holds
\* balance and items
C11_RefusedOnFundedSession ==
    /\ sessionCall.op = "updateInventory"
    /\ thrown = <<"Insufficient inventory">>
    /\ state.balance > 0
    /\ DOMAIN state.inventory # {}

\* ---- properties of the worker thread ----------------------------------------
\* C12: in every state of the worker, whatever submit-order, cancel-order and
\* tick messages it has handled, every player session has balance >= 0 and
\* every quantity in its inventory is >= 0.
C12_LedgersNeverNegative ==
    \A p \in DOMAIN playerSessions :
        /\ playerSessions[p].balance >= 0
        /\ \A i \in DOMAIN playerSessions[p].inventory :
              playerSessions[p].inventory[i] >= 0

\* a player has spent the whole balance on reservations and the next buy has
\* been refused
C12_RefusedAtZeroBalance ==
    /\ request.type = "submit-order"
    /\ request.order.side = "buy"
    /\ response = errorResponse("Insufficient balance")
    /\ playerSessions[request.order.playerId].balance = 0

\* this step handles a submit-order message
Submits == request'.type = "submit-order" /\ submitted' = submitted + 1

\* what getBalance and getInventory show for a player, whether or not the
\* registry has made the session yet
BalanceOf(sessions, p) ==
    IF p \in DOMAIN sessions THEN sessions[p].balance ELSE InitialBalance

HoldingOf(sessions, p, i) ==
    IF p \in DOMAIN sessions THEN getInventory(sessions[p].inventory, i) ELSE 0

\* C13: a submit-order answered with an error leaves the order book as it was
\* and every player's balance and inventory as they were before the request.
C13_RefusedSubmitChangesNothing ==
    [][(Submits /\ response'.type = "error") =>
          /\ orderBook' = orderBook
          /\ \A p \in PlayerId :
                /\ BalanceOf(playerSessions', p) = BalanceOf(playerSessions, p)
                /\ \A i \in ItemId :
                      HoldingOf(playerSessions', p, i) = HoldingOf(playerSessions, p, i)
      ]_vars

\* C14: a sell order for more than the player holds of the item is answered
\* with an error, and no submission makes any quantity in any inventory grow.
C14_SubmissionNeverMintsInventory ==
    [][Submits =>
          LET order == request'.order IN
          /\ (order.side = "sell"
              /\ HoldingOf(playerSessions, order.playerId, order.itemId) < order.quantity)
                => response'.type = "error"
          /\ \A p \in PlayerId : \A i \in ItemId :
                HoldingOf(playerSessions', p, i) <= HoldingOf(playerSessions, p, i)
      ]_vars

\* the orders resting in a SimpleOrderBook
RestingIn(book) == Resting(book.bids) \cup Resting(book.asks)

\* C15: a cancel-order answered with order-cancelled takes the order out of
\* the book and gives back what is reserved for its remaining quantity: price
\* x remaining to the balance of the player of a buy, the remaining quantity
\* to the inventory of the player of a sell.
C15_CancelRefundsRemainder ==
    [][(request'.type = "cancel-order" /\ response'.type = "order-cancelled") =>
          LET order == CHOOSE o \in RestingIn(orderBook) : o.id = request'.orderId
              p == order.playerId
          IN  /\ \A o \in RestingIn(orderBook') : o.id # order.id
              /\ IF order.side = "buy"
                 THEN BalanceOf(playerSessions', p) =
                         BalanceOf(playerSessions, p)
                            + OrZero(order.price) * order.quantity
                 ELSE HoldingOf(playerSessions', p, order.itemId) =
                         HoldingOf(playerSessions, p, order.itemId) + order.quantity
      ]_vars

\* the player of the order with this id in a book
PlayerOf(book, orderId) ==
    (CHOOSE o \in RestingIn(book) : o.id = orderId).playerId

\* quantity of item i that player p buys in the trades ts
RECURSIVE Bought(_, _, _, _)
Bought(ts, book, p, i) ==
    IF ts = <<>> THEN 0
    ELSE (IF PlayerOf(book, Head(ts).buyOrderId) = p /\ Head(ts).itemId = i
          THEN Head(ts).quantity ELSE 0) + Bought(Tail(ts), book, p, i)

\* what player p is paid as the seller in the trades ts
RECURSIVE Proceeds(_, _, _)
Proceeds(ts, book, p) ==
    IF ts = <<>> THEN 0
    ELSE (IF PlayerOf(book, Head(ts).sellOrderId) = p
          THEN Head(ts).quantity * Head(ts).price ELSE 0)
         + Proceeds(Tail(ts), book, p)

\* C16: a tick settles every trade of its response on both ledgers: the player
\* of the buy order gains the trade's quantity of the item, the player of the
\* sell order gains quantity x price of balance, trade by trade.
C16_TickSettlesBothLedgers ==
    [][(request'.type = "tick" /\ response'.type = "tick-completed") =>
          \A p \in PlayerId :
              /\ BalanceOf(playerSessions', p) =
                    BalanceOf(playerSessions, p)
                       + Proceeds(response'.trades, orderBook, p)
              /\ \A i \in ItemId :
                    HoldingOf(playerSessions', p, i) =
                       HoldingOf(playerSessions, p, i)
                          + Bought(response'.trades, orderBook, p, i)
      ]_vars

\* C17: an accepted buy takes price x quantity off the player's balance, with
\* the engine's current price for a buy that carries no price; an accepted
\* sell takes the order's quantity off the player's inventory of the item.
C17_ReservesCostOfOrder ==
    [][(Submits /\ response'.type = "order-submitted") =>
          LET order == request'.order
              p == order.playerId
              price == IF order.price # <<>> THEN order.price[1]
                       ELSE marketEngine.currentPrice
          IN  IF order.side = "buy"
              THEN BalanceOf(playerSessions', p) =
                      BalanceOf(playerSessions, p) - price * order.quantity
              ELSE HoldingOf(playerSessions', p, order.itemId) =
                      HoldingOf(playerSessions, p, order.itemId) - order.quantity
      ]_vars

\* ---- properties of the worker pool ------------------------------------------
\* a MarketWorker that has been started: it has a thread or is running
Started(w) == marketWorkers[w].worker # 0 \/ marketWorkers[w].isRunning

\* C18: once every call of the pool has returned, each item that spawnWorker
\* was called for has a registered worker, and every MarketWorker that has been
\* started is the one the pool holds for its item: one per item, none that
\* the pool does not reference.
C18_OneWorkerPerItem ==
    (\A c \in 1..Len(calls) : calls[c].pc = "returned") =>
        /\ \A c \in 1..Len(calls) :
              calls[c].op = "spawnWorker" => calls[c].itemId \in DOMAIN workers
        /\ \A w \in 1..Len(marketWorkers) :
              Started(w) =>
                 /\ marketWorkers[w].itemId \in DOMAIN workers
                 /\ workers[marketWorkers[w].itemId] = w

\* this step makes a call of the pool
Calls == Len(calls') = Len(calls) + 1

\* the type of the message a routed method sends
MessageTypeOf(op) ==
    CASE op = "submitOrder" -> "submit-order"
      [] op = "cancelOrder" -> "cancel-order"
      [] op = "getOrderBook" -> "get-order-book"
      [] op = "tick" -> "tick"

\* C19: submitOrder, cancelOrder, getOrderBook and tick of the pool post their
\* message to the thread of the worker registered under the request's item id
\* and to no other thread; without such a worker they return the error 'No
\* worker for item' and post nothing. The book of a thread changes only when
\* that thread handles a message of its own inbox, and only orders of its
\* worker's item enter it.
C19_RoutedToRegisteredWorkerOnly ==
    [][/\ (Calls /\ calls'[Len(calls')].op \in
                       {"submitOrder", "cancelOrder", "getOrderBook", "tick"}) =>
             LET made == calls'[Len(calls')] IN
             IF made.itemId \notin DOMAIN workers
             THEN /\ made.pc = "returned"
                  /\ made.result = Response("error", "No worker for item")
                  /\ threads' = threads
             ELSE LET w == workers[made.itemId]
                      t == marketWorkers[w].worker
                  IN  /\ \A u \in 1..Len(threads) : u # t => threads'[u] = threads[u]
                      /\ (t # 0 /\ marketWorkers[w].isRunning) =>
                            /\ Len(threads'[t].inbox) = Len(threads[t].inbox) + 1
                            /\ LET sent == threads'[t].inbox[Len(threads'[t].inbox)]
                               IN  /\ sent.type = MessageTypeOf(made.op)
                                   /\ sent.orderId = made.orderId
       /\ \A t \in 1..Len(threads) :
             threads'[t].book # threads[t].book =>
                /\ threads[t].inbox # <<>>
                /\ threads'[t].inbox = Tail(threads[t].inbox)
                /\ \A o \in threads'[t].book \ threads[t].book :
                      \E w \in 1..Len(marketWorkers) :
                         /\ marketWorkers[w].worker = t
                         /\ marketWorkers[w].itemId = o.itemId
      ]_vars

\* a submitOrder has returned order-submitted with both markets spawned: the
\* order is in the book of its market's thread and the other book is empty
C19_SubmittedWithTwoMarkets ==
    \E c \in 1..Len(calls) :
        /\ calls[c].op = "submitOrder"
        /\ calls[c].pc = "returned"
        /\ calls[c].result.type = "order-submitted"
        /\ DOMAIN workers = ItemId
        /\ \A i \in ItemId :
              threads[marketWorkers[workers[i]].worker].book =
                 IF i = calls[c].itemId
                 THEN {[id |-> calls[c].orderId, itemId |-> i]} ELSE {}

\* C20: tickAll posts a tick to the thread of every worker registered at the
\* call, all of them in the step of the call, before any response; it returns
\* only when each of these ticks is resolved, with a response or an error, and
\* the map it returns has exactly the item ids registered at the call.
C20_TickAllTicksEveryWorker ==
    [][/\ (Calls /\ calls'[Len(calls')].op = "tickAll") =>
             LET made == calls'[Len(calls')] IN
             /\ made.entries = workers
             /\ \A i \in DOMAIN workers :
                   LET w == workers[i]
                       t == marketWorkers[w].worker
                   IN  IF t # 0 /\ marketWorkers[w].isRunning
                       THEN threads'[t].inbox =
                               Append(threads[t].inbox,
                                      Message("tick", "", 0,
                                              <<marketWorkers[w].nextMessageId>>))
                       ELSE i \in DOMAIN made.results
       /\ \A c \in 1..Len(calls) :
             (calls[c].op = "tickAll" /\ calls[c].pc # "returned"
              /\ calls'[c].pc = "returned") =>
                /\ DOMAIN calls'[c].result = DOMAIN calls[c].entries
                /\ \A i \in DOMAIN calls'[c].result :
                      calls'[c].result[i].type \in {"tick-completed", "error"}
                /\ \A w \in 1..Len(marketWorkers) :
                      \A m \in DOMAIN marketWorkers[w].pendingResponses :
                         marketWorkers[w].pendingResponses[m].call # c
      ]_vars

\* a tickAll over two markets has returned, one tick answered by its thread
\* and the other timed out
C20_TickedTwoMarkets ==
    \E c \in 1..Len(calls) :
        /\ calls[c].op = "tickAll"
        /\ calls[c].pc = "returned"
        /\ DOMAIN calls[c].result = ItemId
        /\ \E i \in ItemId : calls[c].result[i].type = "tick-completed"
        /\ \E i \in ItemId :
              calls[c].result[i] = Response("error", "Worker response timeout")

\* ---- properties of the life cycle of the pool --------------------------------
\* call c returns in this step
Returns(c) ==
    /\ c <= Len(calls')
    /\ calls'[c].pc = "returned"
    /\ (c > Len(calls) \/ calls[c].pc # "returned")

\* MarketWorker w is stopped: not running, no thread, and every thread it has
\* made is terminated
Stopped(mws, ths, w) ==
    /\ ~mws[w].isRunning
    /\ mws[w].worker = 0
    /\ \A t \in 1..Len(ths) : ths[t].owner = w => ths[t].terminated

\* C21: when a call of WorkerPool.stop returns and every call of start,
\* spawnWorker and removeWorker made before it has returned, every MarketWorker
\* that spawnWorker has made is stopped (not running, its thread terminated)
\* and the map of the pool is empty
C21_StopStopsEveryWorker ==
    [][\A c \in 1..Len(calls') :
          (/\ Returns(c)
           /\ calls'[c].op = "stop"
           /\ \A d \in 1..Len(calls') : calls'[d].pc = "returned")
          => /\ workers' = <<>>
             /\ \A w \in 1..Len(marketWorkers') :
                   Stopped(marketWorkers', threads', w)]_vars

\* C22: the restart of a crashed worker leaves the orders resting in its
\* book, its current price and the ledgers of its players as they were
\* immediately before the crash
C22_RestartKeepsState ==
    [][request'.type = "initialize"
         => /\ orderBook' = orderBook
            /\ marketEngine' = marketEngine
            /\ playerSessions' = playerSessions]_vars

\* ---- properties of the crash handling of a MarketWorker ----------------------
\* MarketWorker w counts a crash in this step
CountsCrash(w) ==
    /\ w <= Len(marketWorkers)
    /\ marketWorkers'[w].crashCount = marketWorkers[w].crashCount + 1

\* C23: the restart that is scheduled when a MarketWorker counts its n-th
\* crash has the delay min(100 ms * 2^n, 10 s); the delay is never above 10 s
\* and never below the delay of the timer it replaces
C23_BackoffDoublesUpToTenSeconds ==
    [][\A w \in 1..Len(marketWorkers') :
          CountsCrash(w) =>
             LET n == marketWorkers'[w].crashCount
                 delay == marketWorkers'[w].restartTimeout
             IN  /\ delay = <<Min(100 * 2^n, 10000)>>
                 /\ delay[1] <= 10000
                 /\ n > 1 => delay[1] >= Min(100 * 2^(n - 1), 10000)
                 /\ marketWorkers[w].restartTimeout # <<>>
                       => delay[1] >= marketWorkers[w].restartTimeout[1]]_vars

\* a seventh crash, the first whose doubled delay (12.8 s) is cut to 10 s
C23_DelayAtTheCap ==
    \E w \in 1..Len(marketWorkers) :
        /\ marketWorkers[w].crashCount >= 7
        /\ marketWorkers[w].restartTimeout = <<10000>>

\* the answers by which a MarketWorker says that it cannot serve a request
WorkerUnavailable(resp) ==
    /\ resp # <<>>
    /\ resp.type = "error"
    /\ resp.message \in {"Worker not running", "Worker stopped"}

\* C24: when a MarketWorker counts a crash, every request it has sent and not
\* yet answered is answered in that step with a worker-unavailable error; and
\* a request made while the MarketWorker has no thread or is not running is
\* answered at once with a worker-unavailable error
C24_CrashFailsRequestsInFlight ==
    [][/\ \A w \in 1..Len(marketWorkers) :
             CountsCrash(w) =>
                \A m \in DOMAIN marketWorkers[w].pendingResponses :
                   LET c == marketWorkers[w].pendingResponses[m].call
                   IN  /\ calls'[c].pc = "returned"
                       /\ WorkerUnavailable(calls'[c].result)
       /\ (Calls /\ calls'[Len(calls')].op = "submitOrder")
             => LET w == workersGet(calls'[Len(calls')].itemId)
                IN  (w # 0 /\ (marketWorkers[w].worker = 0 \/ ~marketWorkers[w].isRunning))
                       => /\ calls'[Len(calls')].pc = "returned"
                          /\ WorkerUnavailable(calls'[Len(calls')].result)]_vars

\* the timer of sendMessage of MarketWorker w for messageId fires in this step
TimesOut(w, messageId) ==
    /\ messageId \in DOMAIN marketWorkers[w].pendingResponses
    /\ messageId \notin DOMAIN marketWorkers'[w].pendingResponses
    /\ calls'[marketWorkers[w].pendingResponses[messageId].call].result =
          Response("error", "Worker response timeout")

\* C25: when a request gets no response within the timeout, its caller is
\* answered with the timeout error, and the MarketWorker is treated as
\* crashed: its crash count goes up by one and a restart is scheduled
C25_TimeoutStartsRestartPolicy ==
    [][\A w \in 1..Len(marketWorkers) :
          \A messageId \in DOMAIN marketWorkers[w].pendingResponses :
             TimesOut(w, messageId) =>
                /\ calls'[marketWorkers[w].pendingResponses[messageId].call].pc
                      = "returned"
                /\ marketWorkers'[w].crashCount = marketWorkers[w].crashCount + 1
                /\ marketWorkers'[w].restartTimeout # <<>>]_vars

\* the entries <<w, messageId>> of pendingResponses that hold the resolver of
\* call c
PendingOf(mws, c) ==
    UNION {{<<w, m>> : m \in {k \in DOMAIN mws[w].pendingResponses :
                                 mws[w].pendingResponses[k].call = c}} :
           w \in 1..Len(mws)}

\* call c is a request that the pool has passed to MarketWorker.sendMessage
Request(callSeq, c) ==
    /\ callSeq[c].op = "submitOrder"
    /\ callSeq[c].result # Response("error", "No worker for item")

\* call c is resolved in this step by the response that a thread of the
\* MarketWorker has posted with the message id of the request
ByResponse(c) ==
    \E wm \in PendingOf(marketWorkers, c) : \E t \in 1..Len(threads) :
        /\ threads[t].owner = wm[1]
        /\ threads[t].outbox # <<>>
        /\ threads'[t].outbox = Tail(threads[t].outbox)
        /\ Head(threads[t].outbox).messageId = <<wm[2]>>
        /\ calls'[c].result = Head(threads[t].outbox).response

\* call c is resolved in this step by its timer
ByTimeout(c) ==
    /\ PendingOf(marketWorkers, c) # {}
    /\ calls'[c].result = Response("error", "Worker response timeout")

\* call c is resolved in this step by stop() of its MarketWorker
ByStop(c) ==
    \E wm \in PendingOf(marketWorkers, c) :
        /\ marketWorkers[wm[1]].isRunning
        /\ ~marketWorkers'[wm[1]].isRunning
        /\ calls'[c].result = Response("error", "Worker stopped")

\* call c is made in this step of a MarketWorker that has no thread or is not
\* running, and sendMessage returns 'Worker not running'
AtOnce(c) ==
    /\ c = Len(calls) + 1
    /\ LET w == workersGet(calls'[c].itemId)
       IN  w # 0 /\ (marketWorkers[w].worker = 0 \/ ~marketWorkers[w].isRunning)
    /\ calls'[c].result = Response("error", "Worker not running")

\* what a step does to the requests: a resolved request stays as it is; a
\* request is resolved in one of the given ways, AtOnce only if atOnce; a
\* message id is taken once; a request that is not resolved has its entry,
\* and with it its timer
ResolvedOnce(atOnce) ==
    /\ \A c \in 1..Len(calls) :
          (Request(calls, c) /\ calls[c].pc = "returned") => calls'[c] = calls[c]
    /\ \A c \in 1..Len(calls') :
          (Request(calls', c) /\ Returns(c))
             => \/ ByResponse(c) \/ ByTimeout(c) \/ ByStop(c)
                \/ atOnce /\ AtOnce(c)
    /\ \A w \in 1..Len(marketWorkers) :
          /\ marketWorkers'[w].nextMessageId >= marketWorkers[w].nextMessageId
          /\ \A m \in DOMAIN marketWorkers'[w].pendingResponses :
                m \notin DOMAIN marketWorkers[w].pendingResponses
                   => /\ m = marketWorkers[w].nextMessageId
                      /\ marketWorkers'[w].nextMessageId = m + 1
    /\ \A c \in 1..Len(calls') :
          (Request(calls', c) /\ calls'[c].pc # "returned")
             => Cardinality(PendingOf(marketWorkers', c)) = 1

\* call c is a request that waits for its answer
Waits(c) == Request(calls, c) /\ calls[c].pc # "returned"

\* no request stays pending for ever: the calls of a run being finitely many,
\* from some point on no request waits
EveryRequestResolved == <>[](\A c \in 1..Len(calls) : ~Waits(c))

\* C26 as it is stated: every request passed to sendMessage is resolved once,
\* by the response with its message id, by the timeout error or by the 'Worker
\* stopped' error of stop(), and by nothing else; never with the response to
\* another request, and it does not stay pending for ever
C26_ResolvedOnceInThreeWays == [][ResolvedOnce(FALSE)]_vars /\ EveryRequestResolved

\* C26, amended: every request passed to sendMessage is resolved once: at once
\* by the 'Worker not running' error when the MarketWorker has no thread or
\* is not running at the call, and else by the response with its message id,
\* by the timeout error or by the 'Worker stopped' error of stop(); never with
\* the response to another request, and it does not stay pending for ever
C26_ResolvedOnce == [][ResolvedOnce(TRUE)]_vars /\ EveryRequestResolved

\* a request sent before a crash of its worker has been answered by stop()
C26_StoppedAfterCrash ==
    \E c \in 1..Len(calls) : \E w \in 1..Len(marketWorkers) :
        /\ Request(calls, c)
        /\ calls[c].result = Response("error", "Worker stopped")
        /\ marketWorkers[w].crashCount > 0

\* the threads that MarketWorker w has made
ThreadsOf(ths, w) == {t \in 1..Len(ths) : ths[t].owner = w}

\* the restart timer of MarketWorker w runs in this step
RestartRuns(w) ==
    /\ marketWorkers[w].restartTimeout # <<>>
    /\ marketWorkers'[w].isRunning = marketWorkers[w].isRunning
    /\ \/ marketWorkers'[w].restartTimeout = <<>>
       \/ marketWorkers'[w].crashCount > marketWorkers[w].crashCount

C28_PriceAtLeastFloor ==
    engineCall = "updatePrice"
       => \/ engine.currentPrice.kind = "Infinity"
          \/ engine.currentPrice.kind = "finite" /\ engine.currentPrice.value >= 1

\* ---- properties of the worker manager ------------------------------------
\* the call that this step of a caller has added
Added == managerCalls'[Len(managerCalls')]

\* this step is a call of enqueueOrder or of enqueueMarketTick
Enqueues ==
    /\ Len(managerCalls') = Len(managerCalls) + 1
    /\ Added.method \in {"enqueueOrder", "enqueueMarketTick"}

QueueIsFull == Len(orderQueue.queue) >= manager.config.queueCapacity

\* C29: the task queue never holds more than queueCapacity tasks, and a call of
\* enqueueOrder or enqueueMarketTick on a full queue fails with an error that
\* is returned to the caller: the call does not wait for room, no task is
\* dropped and the content of the queue stays as it was.
C29_FullQueueFailsTheCall ==
    /\ Len(orderQueue.queue) <= manager.config.queueCapacity
    /\ [][/\ Len(orderQueue'.queue) <= manager'.config.queueCapacity
          /\ (Enqueues /\ QueueIsFull) =>
                /\ Added.settled = "rejected"
                /\ orderQueue'.queue = orderQueue.queue]_vars

\* the call c is a subscription, and it waits in calls
Subscription(callSeq, c) == callSeq[c].method = "subscribeToMarket"

WaitsFor(callSeq, c, itemId) ==
    /\ Subscription(callSeq, c)
    /\ callSeq[c].settled = "pending"
    /\ callSeq[c].argument = itemId

\* this step publishes an update
Publishes == Len(marketUpdates'.updates) = Len(marketUpdates.updates) + 1

Published == marketUpdates'.updates[Len(marketUpdates'.updates)]

\* C30: a subscription made with subscribeToMarket(itemId) is resolved only
\* with an update of that item, every update that is published resolves the
\* subscriptions that wait for its item, and it is skipped by the
\* subscriptions that wait for another item.
C30_SubscriptionGetsItsItemOnly ==
    [][\A c \in 1..Len(managerCalls) :
          /\ (Subscription(managerCalls, c)
              /\ managerCalls'[c].settled = "resolved")
                 => managerCalls'[c].value.itemId = managerCalls[c].argument
          /\ (Publishes /\ WaitsFor(managerCalls, c, Published.itemId))
                 => managerCalls'[c].settled = "resolved"
          /\ (Publishes /\ Subscription(managerCalls, c)
              /\ ~WaitsFor(managerCalls, c, Published.itemId))
                 => managerCalls'[c] = managerCalls[c]]_vars

\* the runner r ends the processing of a market tick of the item in this step
TickProcessed(r, itemId) ==
    /\ runners[r].pc = "provider"
    /\ runners[r].task = MarketTickTask(itemId)
    /\ runners'[r].pc # "provider"

\* C31: every update that the manager publishes carries the item of a market
\* that has ticked, that is of a market tick that a runner has processed; the
\* tick loop too publishes for the items that tick, not for one fixed item.
C31_UpdateOfTheItemThatTicked ==
    [][Publishes => \E r \in 1..Len(runners) :
                        TickProcessed(r, Published.itemId)]_vars

\* ---- properties of the order book: the events of an order ------------------
\* the id is the id of an order that rests in the book and is in the map
InBook(id) == id \in DOMAIN orders /\ \E o \in Book : o.id = id

\* C32: the events of an order are ordered submit < (fills | cancel). A trade
\* names two orders that have been added and are in the book; the order that a
\* trade fills leaves with status filled, the order that removeOrder takes out
\* leaves with status cancelled, and an order that has left is named by no
\* later trade and is cancelled by no later removeOrder.
C32_SubmitThenFillsOrCancel ==
    [][/\ Emits =>
             LET trade == trades'[Len(trades')]
             IN  /\ InBook(trade.buyOrderId) /\ InBook(trade.sellOrderId)
                 /\ \A o \in {bids[1], asks[1]} :
                        settle(o, trade.quantity).quantity = 0
                           => settle(o, trade.quantity).status = "filled"
       /\ (Removes /\ result' = TRUE) =>
             /\ InBook(call'.arg)
             /\ OrderOf(orders[call'.arg]).status = "cancelled"
      ]_vars

\* two limit orders of one side, a listed before b, are in priority order
Before(side, a, b) ==
    (a.price # <<>> /\ b.price # <<>>) =>
        \/ (side = "buy" /\ a.price[1] > b.price[1])
        \/ (side = "sell" /\ a.price[1] < b.price[1])
        \/ (a.price[1] = b.price[1] /\ a.timestamp <= b.timestamp)

InPriorityOrder(side, list) ==
    \A i, j \in 1..Len(list) : i < j => Before(side, list[i], list[j])

\* C33: between the calls of the book, getBids() and getAsks() list all the
\* resting orders of their side in priority order: bids by descending price,
\* asks by ascending price, equal prices by ascending timestamp.
C33_SnapshotInPriorityOrder ==
    pc = "idle" =>
        /\ Resting(getBids) = Resting(bids)
        /\ Resting(getAsks) = Resting(asks)
        /\ InPriorityOrder("buy", getBids)
        /\ InPriorityOrder("sell", getAsks)

\* C34: in every state of a PlayerSession, after any sequence of
\* updateInventory, updateBalance and setState, no item of the inventory map
\* has the quantity zero: an item whose quantity is zero is not in the map.
C34_NoZeroQuantityInInventory ==
    \A itemId \in DOMAIN state.inventory : state.inventory[itemId] # 0

\* C35: the statistic marketUpdatesBroadcast is the number of updates that
\* have been published: a publication of the tick loop or of a processed
\* market-tick task adds one to it, and nothing else changes it.
C35_BroadcastCountIsPublishedCount ==
    manager.stats.marketUpdatesBroadcast = Len(marketUpdates.updates)

\* the runner r will come back to the queue: it is not aborted and it is on
\* its way to take a task or is processing one
Serves(r) ==
    /\ ~runners[r].aborted
    /\ runners[r].pc \in {"woken", "taken", "processor", "provider"}

\* the runner r gives up the task it has taken without processing it
Drops(r) == runners[r].pc = "taken" /\ runners'[r].pc = "done"

\* C36: while the manager is running, every task that the queue has accepted
\* is taken and processed by a runner, whatever the interleaving of runners
\* that wait in take() and of restartWorker calls: no task waits in the queue
\* with every runner blocked, and no runner drops a task it has taken.
C36_AcceptedTaskIsProcessed ==
    /\ [](manager.isRunning /\ orderQueue.size > 0
             => \E r \in 1..Len(runners) : Serves(r))
    /\ [][manager.isRunning => \A r \in 1..Len(runners) : ~Drops(r)]_vars

\* the threads that MarketWorker w has made and that have not been terminated
Live(w) == {t \in 1..Len(threads) : threads[t].owner = w /\ ~threads[t].terminated}

\* C37: a MarketWorker owns at most one live thread, and a live thread of a
\* MarketWorker is the one its worker field holds: start() on a started
\* worker or during a start() in progress, crash handling and scheduled
\* restarts leave no second thread and no thread that is neither terminated
\* nor referenced.
C37_AtMostOneLiveThread ==
    \A w \in 1..Len(marketWorkers) :
        /\ Cardinality(Live(w)) <= 1
        /\ Live(w) \subseteq {marketWorkers[w].worker}

\* the processor of the task of runner r returns
Succeeds(r) ==
    /\ runners[r].pc = "processor"
    /\ runners'[r].pc # "processor"
    /\ runners'[r].attempt = runners[r].attempt

\* the processor of the task of runner r throws for the last time the retry
\* budget allows
Exhausts(r) ==
    /\ runners[r].pc = "processor"
    /\ runners'[r].attempt = manager.config.maxRetries

\* C38: the processor is invoked at most maxRetries times for an order task;
\* ordersProcessed grows by one when the processor of a task returns, and not
\* at all otherwise, so not for a task that exhausts its retries; and the
\* runner of a task that exhausts its retries goes on with later tasks.
C38_RetryBudget ==
    /\ [](\A r \in 1..Len(runners) :
             runners[r].pc = "processor"
                 => runners[r].attempt + 1 <= manager.config.maxRetries)
    /\ [][manager'.stats.ordersProcessed =
              manager.stats.ordersProcessed
                  + Cardinality({r \in 1..Len(runners) : Succeeds(r)})]_vars
    /\ [][\A r \in 1..Len(runners) : Exhausts(r) => runners'[r].pc # "done"]_vars

\* a trade as the claim compares it
TradeOf(t) ==
    [buyOrderId |-> t.buyOrderId, sellOrderId |-> t.sellOrderId,
     quantity |-> t.quantity, price |-> t.price]

TradesOf(list) == [i \in 1..Len(list) |-> TradeOf(list[i])]

\* a resting order as the claim compares it
RestingOf(set) == {[id |-> o.id, quantity |-> o.quantity, status |-> o.status] : o \in set}

\* C39: after the same sequence of addOrder, removeOrder and matchOrders calls
\* the SimpleOrderBook and the OrderBook have returned the same trades (buy
\* id, sell id, quantity, price) and the same removeOrder results, and hold
\* the same resting orders with the same quantities and statuses.
C39_SimpleOrderBookIsEquivalent ==
    Replayed =>
        /\ RestingOf(RestingIn(orderBook)) = RestingOf(Book)
        /\ call.op = "matchOrders" => TradesOf(response.trades) = TradesOf(result)
        /\ call.op = "removeOrder" => response.success = result

\* the number of orders in the two heaps
Depth == Len(bids) + Len(asks)

\* the running matchOrders call is the first since the last addOrder
FirstMatch == pc = "matching" /\ call.op \in {"constructor", "addOrder"}

\* the running matchOrders call follows another with no addOrder in between
\* (under NextMatchedBook no order arrives after the first matchOrders call)
SecondMatch == pc = "matching" /\ call.op \in {"matchOrders", "removeOrder"}

\* C40: matchOrders terminates: every iteration of its loop takes at least one
\* order out of the book, a call on a book of n >= 1 resting orders emits at
\* most n - 1 trades, and a matchOrders call that follows another with no
\* addOrder in between emits no trade and changes nothing.
C40_MatchOrdersTerminates ==
    /\ [][Emits => Depth' < Depth]_vars
    /\ [](FirstMatch => Len(trades) + Depth <= created
                        /\ (Len(trades) > 0 => Len(trades) <= created - 1))
    /\ [][SecondMatch => /\ ~Emits
                         /\ <<bids, asks, orders, nextTradeId>>'
                                = <<bids, asks, orders, nextTradeId>>]_vars

====
